---- MODULE Spec2Model ----
(***************************************************************************)
(* Rune Relic authoritative server: the deterministic match simulation     *)
(* (game/tick.rs and the modules it calls), the match session that drives  *)
(* it (network/session.rs), transcript verification (proof/verify.rs) and  *)
(* the commit-reveal seed scheme (proof/commitment.rs, core/rng.rs).       *)
(*                                                                         *)
(* Fixed-point values are Q16.16 numbers held in an i32.  The operators    *)
(* below compute the i64 intermediate products and quotients of the source *)
(* on 16-bit limbs, so that every intermediate value stays inside the      *)
(* 32-bit integers of the model checker while the result is bit-for-bit    *)
(* the i32 the Rust code produces.                                         *)
(***************************************************************************)
EXTENDS Integers, Sequences, FiniteSets, TLC

\* ------------------------------------------------------------------------
\* core/fixed.rs
\* ------------------------------------------------------------------------

FIXED_SCALE == 16

FIXED_ONE == 65536

FIXED_HALF == 32768

FIXED_MAX == 2147483647

FIXED_MIN == (-2147483647) - 1

TICK_DURATION == 1092

JUMP_VELOCITY == 786432

ARENA_HALF_WIDTH == 3276800

ARENA_HALF_HEIGHT == 3276800

FORM_SPEEDS == <<393216, 360448, 327680, 294912, 262144>>

FORM_RADII == <<32768, 45875, 65536, 91750, 131072>>

SCORE_TO_EVOLVE == <<100, 300, 600, 1000>>

SCORE_PER_RUNE == 10

SCORE_PER_KILL == 100

\* lib.rs
MATCH_DURATION_TICKS == 5400

\* The i32 whose two's-complement bit pattern has high half h and low half l
\* (both in 0..65535): the `as i32` cast of the source applied to a wide value
\* whose low 32 bits are h:l.
I32OfHalves(h, l) ==
  IF h >= 32768 THEN (h - 65536) * 65536 + l ELSE h * 65536 + l

\* Low 32 bits of the negation of the value with low 32 bits h:l, as an i32.
I32OfNegHalves(h, l) ==
  IF l = 0 THEN I32OfHalves((65536 - h) % 65536, 0)
  ELSE I32OfHalves(65535 - h, 65536 - l)

\* i32 wrapping_add.
wrapping_add(a, b) ==
  IF a > 0 /\ b > 0 /\ a > FIXED_MAX - b
    THEN (a - FIXED_MAX - 1) + (b - FIXED_MAX - 1)
  ELSE IF a < 0 /\ b < 0 /\ a < FIXED_MIN - b
    THEN (a + FIXED_MAX + 1) + (b + FIXED_MAX + 1)
  ELSE a + b

\* i32 wrapping_sub.
wrapping_sub(a, b) ==
  IF b = FIXED_MIN
    THEN (IF a >= 0 THEN FIXED_MIN + a ELSE (a + FIXED_MAX) + 1)
  ELSE wrapping_add(a, -b)

\* |x| for x > FIXED_MIN.
Magnitude(x) == IF x < 0 THEN -x ELSE x

\* The product of two 16-bit limbs p and q as the pair <<product div 65536,
\* product mod 65536>>, from the partial products u and v of the 8-bit halves
\* of p with q.
LimbPair(u, v) ==
  <<(u + (v \div 256)) \div 256, ((u + (v \div 256)) % 256) * 256 + (v % 256)>>

LimbMul(p, q) == LimbPair((p \div 256) * q, (p % 256) * q)

\* The i32 cast of (magnitude >> 16) with the sign restored, where the low 32
\* bits of magnitude >> 16 are h:l and rem is the part shifted out.  The shift
\* is an arithmetic shift, so a negative product rounds toward minus infinity.
MulCast(h, l, rem, neg) ==
  IF ~neg THEN I32OfHalves(h, l)
  ELSE IF rem = 0 THEN I32OfNegHalves(h, l)
  ELSE IF l = 65535 THEN I32OfNegHalves((h + 1) % 65536, 0)
  ELSE I32OfNegHalves(h, l + 1)

\* lo is the limb pair of a0 * b0, x = a1 * b0, y = a0 * b1, z = a1 * b1, and
\* mid the sum of the three 16-bit columns that meet at bit 16.
MulColumns(lo, mid, x, y, z, neg) ==
  MulCast(((z % 65536) + (x \div 65536) + (y \div 65536) + (mid \div 65536)) % 65536,
          mid % 65536, lo[2], neg)

MulPartial(lo, x, y, z, neg) ==
  MulColumns(lo, (x % 65536) + (y % 65536) + lo[1], x, y, z, neg)

MulLimbs(a1, a0, b1, b0, neg) ==
  MulPartial(LimbMul(a0, b0), a1 * b0, a0 * b1, a1 * b1, neg)

MulMagnitudes(ma, mb, neg) ==
  MulLimbs(ma \div 65536, ma % 65536, mb \div 65536, mb % 65536, neg)

\* fixed_mul: ((a as i64) * (b as i64)) >> 16, cast to i32.
fixed_mul(a, b) ==
  IF a = 0 \/ b = 0 THEN 0
  ELSE MulMagnitudes(Magnitude(a), Magnitude(b), (a < 0) # (b < 0))

\* floor(r * 2^16 / d) for 0 <= r < d, by binary long division.
RECURSIVE FracDiv(_, _, _, _)
FracDiv(r, d, n, q) ==
  IF n = 0 THEN q
  ELSE IF r >= d - r THEN FracDiv(r - (d - r), d, n - 1, 2 * q + 1)
  ELSE FracDiv(r + r, d, n - 1, 2 * q)

\* fixed_div: ((a as i64) << 16) / (b as i64), cast to i32; 0 when b = 0.
\* i64 division truncates toward zero.
fixed_div(a, b) ==
  IF b = 0 THEN 0
  ELSE LET ma == Magnitude(a)
           mb == Magnitude(b)
           q1 == ma \div mb
           q0 == FracDiv(ma % mb, mb, 16, 0)
           h  == q1 % 65536
           neg == (a < 0) # (b < 0)
       IN  IF neg THEN I32OfNegHalves(h, q0) ELSE I32OfHalves(h, q0)

Max(a, b) == IF a >= b THEN a ELSE b

Min(a, b) == IF a <= b THEN a ELSE b

\* x >> 1 on i32 (arithmetic shift).
Shr1(x) == IF x >= 0 THEN x \div 2 ELSE -((1 - x) \div 2)

\* fixed_sqrt: six Newton-Raphson iterations from the guess max(x >> 1, 1).
RECURSIVE SqrtIter(_, _, _)
SqrtIter(x, guess, n) ==
  IF n = 0 THEN guess
  ELSE SqrtIter(x, Max(Shr1(wrapping_add(guess, fixed_div(x, guess))), 1), n - 1)

fixed_sqrt(x) ==
  IF x <= 0 THEN 0
  ELSE SqrtIter(x, Max(Shr1(x), 1), 6)

\* ------------------------------------------------------------------------
\* core/vec2.rs
\* ------------------------------------------------------------------------

Vec(x, y) == [x |-> x, y |-> y]

ZERO == Vec(0, 0)

vec_add(a, b) == Vec(wrapping_add(a.x, b.x), wrapping_add(a.y, b.y))

vec_sub(a, b) == Vec(wrapping_sub(a.x, b.x), wrapping_sub(a.y, b.y))

scale(v, s) == Vec(fixed_mul(v.x, s), fixed_mul(v.y, s))

div_scalar(v, s) == Vec(fixed_div(v.x, s), fixed_div(v.y, s))

length_squared(v) == wrapping_add(fixed_mul(v.x, v.x), fixed_mul(v.y, v.y))

length(v) == fixed_sqrt(length_squared(v))

distance_squared(a, b) ==
  LET Squares(dx, dy) == wrapping_add(fixed_mul(dx, dx), fixed_mul(dy, dy))
  IN  Squares(wrapping_sub(a.x, b.x), wrapping_sub(a.y, b.y))

distance(a, b) == fixed_sqrt(distance_squared(a, b))

normalize(v) ==
  LET Unit(len) == IF len = 0 THEN ZERO ELSE div_scalar(v, len)
  IN  Unit(length(v))

\* ------------------------------------------------------------------------
\* Option<T>: None is the empty sequence, Some(v) the one-element sequence.
\* ------------------------------------------------------------------------

None == <<>>

Some(v) == <<v>>

IsSome(o) == o # <<>>

\* F applied to s, with s computed before F starts, as one statement of the
\* source follows another.
Then(s, F(_)) == IF s = s THEN F(s) ELSE F(s)

\* The function f itself, with its values computed once.
Tabulated(f) == IF f = <<>> THEN f ELSE f

\* Smallest element of a non-empty set of integers.
MinOf(S) == CHOOSE x \in S : \A y \in S : x <= y

\* The elements of a finite set of integers in ascending order: the iteration
\* order of a BTreeMap's keys.
RECURSIVE SortedSeq(_)
SortedSeq(S) ==
  IF S = {} THEN <<>>
  ELSE LET m == MinOf(S) IN <<m>> \o SortedSeq(S \ {m})

\* ------------------------------------------------------------------------
\* game/input.rs
\* ------------------------------------------------------------------------

NO_INPUT == -128

FLAG_JUMP == 1

FLAG_ABILITY == 2

\* MOVE_LUT: (signed * 65536) / 127 with Rust's truncating division; the
\* reserved value -128 maps to 0.
move_to_fixed(input) ==
  IF input = NO_INPUT THEN 0
  ELSE IF input >= 0 THEN (input * 65536) \div 127
  ELSE -(((-input) * 65536) \div 127)

InputFrame(mx, my, fl) == [move_x |-> mx, move_y |-> my, flags |-> fl]

\* InputFrame::new(): no movement on either axis, no flags.
InputFrame_new == InputFrame(NO_INPUT, NO_INPUT, 0)

move_direction(input) == Vec(move_to_fixed(input.move_x), move_to_fixed(input.move_y))

jump_pressed(input) == (input.flags % 2) = 1

ability_pressed(input) == ((input.flags \div 2) % 2) = 1

\* ------------------------------------------------------------------------
\* core/rng.rs
\*
\* The generator is a deterministic function of its state.  The xorshift128+
\* word sequence of a seed is represented by a fixed table of 64-bit words
\* (four 16-bit limbs each, most significant first) per seed class; the
\* state is the table row and the number of words drawn so far.  Everything
\* computed from a word (next_int, next_fixed, next_fixed_range,
\* random_position) is computed as in the source.
\* ------------------------------------------------------------------------

\* Row 1: three players spawn in a chain, each overlapping only its neighbour.
\* Row 2: players spawn two ticks of travel away from overlapping.
\* Row 3: players spawn far apart; the first rune lands on the first player.
Streams ==
  << << <<32768, 0, 0, 0>>,  <<32768, 0, 0, 0>>,
        <<33368, 0, 0, 7>>,  <<32768, 0, 0, 0>>,
        <<33968, 0, 0, 99>>, <<32768, 0, 0, 0>>,
        <<32768, 0, 0, 85>>, <<32768, 0, 0, 3>>,
        <<33368, 0, 0, 92>>, <<32768, 0, 0, 1>> >>,
     << <<32768, 0, 0, 0>>,  <<32768, 0, 0, 0>>,
        <<33528, 0, 0, 61>>, <<32768, 0, 0, 0>>,
        <<34288, 0, 0, 99>>, <<32768, 0, 0, 0>>,
        <<32768, 0, 0, 99>>, <<32768, 0, 0, 2>>,
        <<33528, 0, 0, 85>>, <<32768, 0, 0, 0>> >>,
     << <<22768, 0, 0, 0>>,  <<32768, 0, 0, 0>>,
        <<42768, 0, 0, 99>>, <<32768, 0, 0, 0>>,
        <<32768, 0, 0, 92>>, <<52768, 0, 0, 0>>,
        <<22768, 0, 0, 99>>, <<32768, 0, 0, 1>>,
        <<42768, 0, 0, 85>>, <<32768, 0, 0, 62>> >> >>

NumStreams == Len(Streams)

\* The generator state [0, 0], which set_state can install: every word drawn
\* from it is 0 and the state stays [0, 0].
ZeroRngState == [stream |-> 0, pos |-> 0]

\* DeterministicRng::new(seed).
Rng_new(seed) == [stream |-> (seed % NumStreams) + 1, pos |-> 0]

\* next_u64: the word drawn and the advanced generator.
next_u64(rng) ==
  IF rng = ZeroRngState THEN [word |-> <<0, 0, 0, 0>>, rng |-> rng]
  ELSE [word |-> Streams[rng.stream][(rng.pos % Len(Streams[rng.stream])) + 1],
        rng  |-> [rng EXCEPT !.pos = rng.pos + 1]]

\* The 16-byte words that are hashed or compared (match ids, player ids, halves
\* of 32-byte values) are numbers below WordBase - 1.
WordBase == 8

\* The u64 read from the first 8 bytes of the digest of a sequence of words.
\* Distinct digests are taken to differ in their first 8 bytes, so the number
\* is a positional code of the words in the order they were hashed.
RECURSIVE DigestPrefix(_, _, _)
DigestPrefix(words, i, acc) ==
  IF i > Len(words) THEN acc
  ELSE DigestPrefix(words, i + 1, acc * WordBase + words[i] + 1)

\* derive_match_seed: the hasher is fed the domain tag, the block hash, the
\* match id and the player ids in the order of the slice.
derive_match_seed(block_hash, match_id, player_ids) ==
  DigestPrefix(block_hash \o <<match_id>> \o player_ids, 1, 0)

\* The 64-bit word w (four 16-bit limbs) modulo max, for 0 < max < 2^15.
ModWord(w, max) ==
  ((((((w[1] % max) * 65536 + w[2]) % max) * 65536 + w[3]) % max) * 65536 + w[4]) % max

\* next_int(max): next_u64() % max; 0 without drawing when max = 0.
next_int(rng, max) ==
  IF max = 0 THEN [value |-> 0, rng |-> rng]
  ELSE LET Drawn(d) == [value |-> ModWord(d.word, max), rng |-> d.rng]
       IN  Drawn(next_u64(rng))

\* Bits 32 and up of the product of the 32-bit values r1:r0 and m1:m0, from
\* the limb products p00 = r0 * m0, p10 = r1 * m0, p01 = r0 * m1 and r1 * m1.
HighSum(p00, p10, p01, p11) ==
  p11 + p10[1] + p01[1] + ((p10[2] + p01[2] + p00[1]) \div 65536)

MulHigh(r1, r0, m1, m0) ==
  HighSum(LimbMul(r0, m0), LimbMul(r1, m0), LimbMul(r0, m1), r1 * m1)

\* next_fixed(max): ((raw as i64 * max as i64) >> 32) where raw is the upper
\* 32 bits of the word; 0 without drawing when max <= 0.
next_fixed(rng, max) ==
  IF max <= 0 THEN [value |-> 0, rng |-> rng]
  ELSE LET Drawn(d) ==
             [value |-> MulHigh(d.word[1], d.word[2], max \div 65536, max % 65536),
              rng |-> d.rng]
       IN  Drawn(next_u64(rng))

next_fixed_range(rng, min, max) ==
  IF min >= max THEN [value |-> min, rng |-> rng]
  ELSE LET Offset(d) == [value |-> wrapping_add(min, d.value), rng |-> d.rng]
       IN  Offset(next_fixed(rng, wrapping_sub(max, min)))

random_position(rng) ==
  LET AfterX(dx) ==
        LET AfterY(dy) == [value |-> Vec(dx.value, dy.value), rng |-> dy.rng]
        IN  AfterY(next_fixed_range(dx.rng, -ARENA_HALF_HEIGHT, ARENA_HALF_HEIGHT))
  IN  AfterX(next_fixed_range(rng, -ARENA_HALF_WIDTH, ARENA_HALF_WIDTH))

\* ------------------------------------------------------------------------
\* game/state.rs: players
\*
\* A PlayerId is a 16-byte value ordered bytewise; ids are the integers
\* 1, 2, 3.. in that order.  A Form is its index 0..4; enum variants of the
\* other kinds are named by strings.
\* ------------------------------------------------------------------------

Form_speed(form) == FORM_SPEEDS[form + 1]

Form_radius(form) == FORM_RADII[form + 1]

\* Form::from_index(i).unwrap_or_default()
Form_from_index_or_default(i) == IF i \in 0..4 THEN i ELSE 0

PlayerState_new(id, position) ==
  [ id |-> id, position |-> position, velocity |-> ZERO, form |-> 0,
    score |-> 0, alive |-> TRUE, placement |-> None,
    eliminated_tick |-> None, eliminated_by |-> None,
    ability_cooldown |-> 0, last_jump_tick |-> 0, kills |-> 0,
    runes_collected |-> 0, health |-> FIXED_ONE, max_health |-> FIXED_ONE,
    speed_buff_ticks |-> 0, shield_buff_ticks |-> 0,
    invulnerable_ticks |-> 0, dash_velocity |-> None,
    shrine_buffs |-> <<>>, shrine_buff_ticks |-> <<>> ]

can_evolve(p) == p.form # 4 /\ p.score >= SCORE_TO_EVOLVE[p.form + 1]

\* try_evolve: at most one tier per call.
try_evolve(p) == IF can_evolve(p) THEN [p EXCEPT !.form = p.form + 1] ELSE p

\* add_score: scores are far below u32::MAX, where saturating_add is +.
add_score(p, amount) == try_evolve([p EXCEPT !.score = p.score + amount])

\* A readiness test that ignores the cooldown.
ability_ready_always(p) == TRUE

ability_ready(p) == p.ability_cooldown <= 0

can_jump(p, current_tick) ==
  (IF current_tick >= p.last_jump_tick THEN current_tick - p.last_jump_tick ELSE 0) >= 30

has_shrine_buff(p, buff_type) ==
  \E i \in 1..Len(p.shrine_buffs) :
     /\ p.shrine_buffs[i] = buff_type
     /\ i <= Len(p.shrine_buff_ticks)
     /\ p.shrine_buff_ticks[i] > 0

add_shrine_buff(p, buff_type, duration_ticks) ==
  IF \E i \in 1..Len(p.shrine_buffs) : p.shrine_buffs[i] = buff_type
    THEN LET i == MinOf({j \in 1..Len(p.shrine_buffs) : p.shrine_buffs[j] = buff_type})
         IN  [p EXCEPT !.shrine_buff_ticks[i] = duration_ticks]
  ELSE [p EXCEPT !.shrine_buffs = Append(@, buff_type),
                 !.shrine_buff_ticks = Append(@, duration_ticks)]

\* Vec::swap_remove(i): the last element takes the place of element i.
swap_remove(s, i) ==
  LET n == Len(s)
  IN  Tabulated([k \in 1..(n - 1) |-> IF k = i THEN s[n] ELSE s[k]])

\* The removal loop of update_shrine_buffs, from index i on.
RECURSIVE RemoveExpired(_, _, _)
RemoveExpired(buffs, ticks, i) ==
  IF i > Len(buffs) THEN [buffs |-> buffs, ticks |-> ticks]
  ELSE IF ticks[i] = 0
    THEN RemoveExpired(swap_remove(buffs, i), swap_remove(ticks, i), i)
  ELSE RemoveExpired(buffs, ticks, i + 1)

update_shrine_buffs(p) ==
  LET decayed == Tabulated([i \in 1..Len(p.shrine_buff_ticks) |->
                    IF p.shrine_buff_ticks[i] > 0 THEN p.shrine_buff_ticks[i] - 1 ELSE 0])
      r == RemoveExpired(p.shrine_buffs, decayed, 1)
  IN  [p EXCEPT !.shrine_buffs = r.buffs, !.shrine_buff_ticks = r.ticks]

ShrineTypeIndex(t) ==
  CASE t = "Wisdom" -> 0 [] t = "Power" -> 1 [] t = "Speed" -> 2 [] t = "Shield" -> 3

RuneTypeIndex(t) ==
  CASE t = "Wisdom" -> 0 [] t = "Power" -> 1 [] t = "Speed" -> 2
    [] t = "Shield" -> 3 [] t = "Arcane" -> 4 [] t = "Chaos" -> 5

AbilityTypeIndex(t) ==
  CASE t = "Dash" -> 0 [] t = "PhaseShift" -> 1 [] t = "Repel" -> 2
    [] t = "GravityWell" -> 3 [] t = "Consume" -> 4

BoolByte(b) == IF b THEN 1 ELSE 0

\* The fields PlayerState::hash_into feeds to the hasher, in order.
RECURSIVE BuffFields(_, _, _)
BuffFields(buffs, ticks, i) ==
  IF i > Len(buffs) THEN <<>>
  ELSE <<ShrineTypeIndex(buffs[i])>>
       \o (IF i <= Len(ticks) THEN <<ticks[i]>> ELSE <<>>)
       \o BuffFields(buffs, ticks, i + 1)

Player_hash_into(p) ==
  << p.id, p.position.x, p.position.y, p.velocity.x, p.velocity.y, p.form,
     p.score, BoolByte(p.alive), p.kills, p.health, p.speed_buff_ticks,
     p.shield_buff_ticks, p.invulnerable_ticks >>
  \o BuffFields(p.shrine_buffs, p.shrine_buff_ticks, 1)

\* ------------------------------------------------------------------------
\* game/collision.rs
\* ------------------------------------------------------------------------

circles_overlap(pos_a, radius_a, pos_b, radius_b) ==
  LET combined_radius == radius_a + radius_b
      combined_radius_sq == fixed_mul(combined_radius, combined_radius)
  IN  distance_squared(pos_a, pos_b) <= combined_radius_sq

HasShield(p) == p.shield_buff_ticks > 0 \/ has_shrine_buff(p, "Shield")

\* check_player_collision with the final tie-break resolved for whichever
\* player is passed first.
check_player_collision_first_wins(a, b) ==
  IF ~a.alive \/ ~b.alive THEN None
  ELSE IF a.invulnerable_ticks > 0 \/ b.invulnerable_ticks > 0 THEN None
  ELSE IF ~circles_overlap(a.position, Form_radius(a.form), b.position, Form_radius(b.form))
    THEN None
  ELSE IF a.form > b.form THEN Some([winner |-> a.id, loser |-> b.id])
  ELSE IF b.form > a.form THEN Some([winner |-> b.id, loser |-> a.id])
  ELSE IF HasShield(a) /\ ~HasShield(b) THEN Some([winner |-> a.id, loser |-> b.id])
  ELSE IF HasShield(b) /\ ~HasShield(a) THEN Some([winner |-> b.id, loser |-> a.id])
  ELSE Some([winner |-> a.id, loser |-> b.id])

\* check_player_collision: None, or Some([winner, loser]).
check_player_collision(a, b) ==
  IF ~a.alive \/ ~b.alive THEN None
  ELSE IF a.invulnerable_ticks > 0 \/ b.invulnerable_ticks > 0 THEN None
  ELSE IF ~circles_overlap(a.position, Form_radius(a.form), b.position, Form_radius(b.form))
    THEN None
  ELSE IF a.form > b.form THEN Some([winner |-> a.id, loser |-> b.id])
  ELSE IF b.form > a.form THEN Some([winner |-> b.id, loser |-> a.id])
  ELSE IF HasShield(a) /\ ~HasShield(b) THEN Some([winner |-> a.id, loser |-> b.id])
  ELSE IF HasShield(b) /\ ~HasShield(a) THEN Some([winner |-> b.id, loser |-> a.id])
  ELSE IF a.id < b.id THEN Some([winner |-> a.id, loser |-> b.id])
  ELSE Some([winner |-> b.id, loser |-> a.id])

\* Collisions of the pairs (ids[i], ids[j]), j >= the given j, then of the
\* later i, in the order of the two nested loops.
RECURSIVE CollisionPairs(_, _, _, _)
CollisionPairs(players, ids, i, j) ==
  IF i > Len(ids) THEN <<>>
  ELSE IF j > Len(ids) THEN CollisionPairs(players, ids, i + 1, i + 2)
  ELSE check_player_collision(players[ids[i]], players[ids[j]])
       \o CollisionPairs(players, ids, i, j + 1)

check_all_player_collisions(state) ==
  CollisionPairs(state.players, SortedSeq(DOMAIN state.players), 1, 2)

RUNE_RADIUS == 19660

check_rune_collision(player, rune) ==
  IF ~player.alive \/ rune.collected THEN FALSE
  ELSE circles_overlap(player.position, Form_radius(player.form), rune.position, RUNE_RADIUS)

\* Rune collisions of player ids[i] with runes k.., then of the later players.
RECURSIVE RuneCollisionPairs(_, _, _, _)
RuneCollisionPairs(state, ids, i, k) ==
  IF i > Len(ids) THEN <<>>
  ELSE IF k > Len(state.runes) \/ ~state.players[ids[i]].alive
    THEN RuneCollisionPairs(state, ids, i + 1, 1)
  ELSE (IF ~state.runes[k].collected
           /\ check_rune_collision(state.players[ids[i]], state.runes[k])
          THEN <<[player_id |-> ids[i], rune_id |-> state.runes[k].id]>>
        ELSE <<>>)
       \o RuneCollisionPairs(state, ids, i, k + 1)

check_all_rune_collisions(state) ==
  RuneCollisionPairs(state, SortedSeq(DOMAIN state.players), 1, 1)

\* ------------------------------------------------------------------------
\* game/events.rs
\* ------------------------------------------------------------------------

\* EventPriority discriminants.
PRIORITY_PlayerElimination == 0

PRIORITY_RuneCollection == 1

PRIORITY_FormEvolution == 2

PRIORITY_ShrineActivation == 3

PRIORITY_AbilityEffect == 4

PRIORITY_Other == 255

\* GameEvent::new: the event's player is taken from its data.
GameEvent(tick, priority, player_id, data) ==
  [tick |-> tick, priority |-> priority, player_id |-> player_id, data |-> data]

player_eliminated(tick, victim_id, killer_id, placement) ==
  GameEvent(tick, PRIORITY_PlayerElimination, Some(victim_id),
            <<"PlayerEliminated", victim_id, killer_id, placement>>)

rune_collected(tick, player_id, rune_id, rune_type, points, new_score) ==
  GameEvent(tick, PRIORITY_RuneCollection, Some(player_id),
            <<"RuneCollected", player_id, rune_id, rune_type, points, new_score>>)

form_evolved(tick, player_id, old_form, new_form) ==
  GameEvent(tick, PRIORITY_FormEvolution, Some(player_id),
            <<"FormEvolved", player_id, old_form, new_form>>)

match_ended(tick, winner_id) ==
  GameEvent(tick, PRIORITY_Other, winner_id, <<"MatchEnded", winner_id, tick>>)

shrine_channel_started(tick, player_id, shrine_id) ==
  GameEvent(tick, PRIORITY_ShrineActivation, Some(player_id),
            <<"ShrineChannelStarted", player_id, shrine_id>>)

shrine_activated(tick, player_id, shrine_id) ==
  GameEvent(tick, PRIORITY_ShrineActivation, Some(player_id),
            <<"ShrineActivated", player_id, shrine_id>>)

shrine_channel_interrupted(tick, player_id, shrine_id) ==
  GameEvent(tick, PRIORITY_ShrineActivation, Some(player_id),
            <<"ShrineChannelInterrupted", player_id, shrine_id>>)

ability_used(tick, player_id, ability_type) ==
  GameEvent(tick, PRIORITY_AbilityEffect, Some(player_id),
            <<"AbilityUsed", player_id, ability_type>>)

\* GameEvent::rune_spawned is called by rune.rs; its data variant RuneSpawned
\* carries no player, and it is given the priority of uncategorised events.
rune_spawned(tick, rune_id, rune_type, position) ==
  GameEvent(tick, PRIORITY_Other, None,
            <<"RuneSpawned", rune_id, rune_type, position.x, position.y>>)

\* Option<PlayerId> ordering: None sorts before every Some.
OptionLeq(a, b) ==
  IF a = None THEN TRUE ELSE IF b = None THEN FALSE ELSE a[1] <= b[1]

\* impl Ord for GameEvent: e1 <= e2 by (tick, priority, player_id).
EventLeq(e1, e2) ==
  \/ e1.tick < e2.tick
  \/ /\ e1.tick = e2.tick
     /\ \/ e1.priority < e2.priority
        \/ /\ e1.priority = e2.priority
           /\ OptionLeq(e1.player_id, e2.player_id)

\* ------------------------------------------------------------------------
\* game/state.rs: match state
\* ------------------------------------------------------------------------

Waiting == [name |-> "Waiting", ticks_remaining |-> 0]

Countdown(n) == [name |-> "Countdown", ticks_remaining |-> n]

Playing == [name |-> "Playing", ticks_remaining |-> 0]

Ended == [name |-> "Ended", ticks_remaining |-> 0]

MatchState_new(match_id, rng_seed) ==
  [ match_id |-> match_id, tick |-> 0, phase |-> Waiting,
    rng_seed |-> rng_seed, rng |-> Rng_new(rng_seed),
    players |-> <<>>, runes |-> <<>>, shrines |-> <<>>,
    next_rune_id |-> 0, alive_count |-> 0, next_placement |-> 0,
    pending_events |-> <<>>, arena_shrink |-> 0, active_abilities |-> <<>> ]

\* The map m with key k bound to v (BTreeMap::insert).
MapInsert(m, k, v) ==
  Tabulated([x \in (DOMAIN m) \cup {k} |-> IF x = k THEN v ELSE m[x]])

add_player(state, id) ==
  LET d == random_position(state.rng)
  IN  [state EXCEPT !.rng = d.rng,
                    !.players = MapInsert(@, id, PlayerState_new(id, d.value)),
                    !.alive_count = @ + 1]

RuneState_new(id, position, rune_type) ==
  [ id |-> id, position |-> position, rune_type |-> rune_type,
    collected |-> FALSE, collected_tick |-> None, collected_by |-> None ]

\* spawn_rune: rune ids are handed out from 0 and runes are never removed
\* during a match, so the id-keyed map is the sequence of runes by id.
spawn_rune(state, position, rune_type) ==
  [state EXCEPT !.next_rune_id = @ + 1,
                !.runes = Append(@, RuneState_new(state.next_rune_id, position, rune_type))]

current_arena_bounds(state) ==
  LET shrink_factor == FIXED_ONE - Shr1(state.arena_shrink)
  IN  [hw |-> fixed_mul(ARENA_HALF_WIDTH, shrink_factor),
       hh |-> fixed_mul(ARENA_HALF_HEIGHT, shrink_factor)]

push_event(state, event) == [state EXCEPT !.pending_events = Append(@, event)]

\* eliminate_player(victim_id, killer_id): killer_id is an Option.
eliminate_player(state, victim_id, killer_id) ==
  IF ~(victim_id \in DOMAIN state.players /\ state.players[victim_id].alive)
    THEN state
  ELSE
    LET placement == Cardinality(DOMAIN state.players) - state.next_placement
        s1 == [state EXCEPT
                 !.players[victim_id].alive = FALSE,
                 !.players[victim_id].eliminated_tick = Some(state.tick),
                 !.players[victim_id].eliminated_by = killer_id,
                 !.players[victim_id].placement = Some(placement),
                 !.alive_count = IF @ > 0 THEN @ - 1 ELSE 0,
                 !.next_placement = @ + 1]
    IN  IF IsSome(killer_id) /\ killer_id[1] \in DOMAIN s1.players
          THEN [s1 EXCEPT !.players[killer_id[1]] =
                            add_score([@ EXCEPT !.kills = @ + 1], SCORE_PER_KILL)]
        ELSE s1

\* Concatenation of f(s[i]) for i = 1..Len(s).
RECURSIVE FlatMap(_, _, _)
FlatMap(f(_), s, i) ==
  IF i > Len(s) THEN <<>> ELSE f(s[i]) \o FlatMap(f, s, i + 1)

RuneHashFields(r) ==
  <<r.id, r.position.x, r.position.y, RuneTypeIndex(r.rune_type), BoolByte(r.collected)>>

ShrineHashFields(s) ==
  <<s.id, BoolByte(s.active), s.channel_progress, s.cooldown>>

AbilityHashFields(e) ==
  <<AbilityTypeIndex(e.ability_type), e.position.x, e.position.y, e.remaining_ticks>>

\* SHA-256 is taken to be collision free: a digest is identified with the
\* domain tag and the sequence of fields that were fed to the hasher.
Sha256(domain, fields) == <<domain, fields>>

\* The all-zero 32-byte hash, which is no digest.
ZeroHash == <<"zero", <<>>>>

\* compute_hash: tick and seed, then players, runes, shrines, active
\* abilities, arena shrink and alive count.
compute_hash(state) ==
  LET ids == SortedSeq(DOMAIN state.players)
      PlayerFields(id) == Player_hash_into(state.players[id])
  IN  Sha256("RUNE_RELIC_STATE_V1",
        <<state.tick, state.rng_seed>>
        \o FlatMap(PlayerFields, ids, 1)
        \o FlatMap(RuneHashFields, state.runes, 1)
        \o FlatMap(ShrineHashFields, state.shrines, 1)
        \o FlatMap(AbilityHashFields, state.active_abilities, 1)
        \o <<state.arena_shrink, state.alive_count>>)

\* take_events: the pending events in the order they were pushed.
take_events(state) ==
  [state |-> [state EXCEPT !.pending_events = <<>>], events |-> state.pending_events]

\* i32 saturating_add / saturating_sub / abs.
saturating_add(a, b) ==
  IF b > 0 /\ a > FIXED_MAX - b THEN FIXED_MAX
  ELSE IF b < 0 /\ a < FIXED_MIN - b THEN FIXED_MIN
  ELSE a + b

saturating_sub(a, b) ==
  IF b < 0 /\ a > FIXED_MAX + b THEN FIXED_MAX
  ELSE IF b > 0 /\ a < FIXED_MIN + b THEN FIXED_MIN
  ELSE a - b



\* Left fold of step(acc, s[i]) over i = i..Len(s).
RECURSIVE FoldSeq(_, _, _, _)
FoldSeq(step(_, _), acc, s, i) ==
  IF i > Len(s) THEN acc ELSE FoldSeq(step, step(acc, s[i]), s, i + 1)

\* The elements of s that satisfy keep, in order.
RECURSIVE FilterSeq(_, _, _)
FilterSeq(keep(_), s, i) ==
  IF i > Len(s) THEN <<>>
  ELSE (IF keep(s[i]) THEN <<s[i]>> ELSE <<>>) \o FilterSeq(keep, s, i + 1)

\* ------------------------------------------------------------------------
\* game/ability.rs
\* ------------------------------------------------------------------------

ABILITY_COOLDOWNS == <<180, 300, 360, 420, 480>>

DASH_SPEED == 983040

PHASE_SHIFT_TICKS == 20

REPEL_RADIUS == 327680

REPEL_FORCE == 524288

GRAVITY_WELL_RADIUS == 458752

GRAVITY_WELL_TICKS == 180

CONSUME_RADIUS_MULT == 98304

CONSUME_TICKS == 60

ability_for_form(form) ==
  CASE form = 0 -> "Dash" [] form = 1 -> "PhaseShift" [] form = 2 -> "Repel"
    [] form = 3 -> "GravityWell" [] form = 4 -> "Consume"

activate_dash(state, player_id, current_velocity) ==
  LET direction == IF length_squared(current_velocity) > 0
                     THEN normalize(current_velocity)
                   ELSE Vec(FIXED_ONE, 0)
  IN  [state EXCEPT !.players[player_id].dash_velocity = Some(scale(direction, DASH_SPEED))]

activate_phase_shift(state, player_id) ==
  [state EXCEPT !.players[player_id].invulnerable_ticks = PHASE_SHIFT_TICKS]

activate_repel(state, player_id, position) ==
  LET radius_sq == fixed_mul(REPEL_RADIUS, REPEL_RADIUS)
      Pushed(id) == /\ id # player_id
                    /\ state.players[id].alive
                    /\ distance_squared(position, state.players[id].position) < radius_sq
      Push(p) == LET diff == vec_sub(p.position, position)
                 IN  IF length_squared(diff) > 0
                       THEN [p EXCEPT !.velocity = vec_add(@, scale(normalize(diff), REPEL_FORCE))]
                     ELSE p
  IN  [state EXCEPT !.players =
         Tabulated([id \in DOMAIN state.players |->
            IF Pushed(id) THEN Push(state.players[id]) ELSE state.players[id]])]

ActiveAbilityEffect(ability_type, source_player, position, remaining_ticks, radius) ==
  [ ability_type |-> ability_type, source_player |-> source_player,
    position |-> position, remaining_ticks |-> remaining_ticks, radius |-> radius ]

activate_gravity_well(state, player_id, position) ==
  [state EXCEPT !.active_abilities =
     Append(@, ActiveAbilityEffect("GravityWell", player_id, position,
                                   GRAVITY_WELL_TICKS, GRAVITY_WELL_RADIUS))]

activate_consume(state, player_id) ==
  [state EXCEPT !.active_abilities =
     Append(@, ActiveAbilityEffect("Consume", player_id, state.players[player_id].position,
                                   CONSUME_TICKS, CONSUME_RADIUS_MULT))]

\* activate_ability: the state after the activation with its event pushed by
\* the caller's `if let Some(event)`, or the state unchanged.
activate_ability(state, player_id) ==
  IF player_id \notin DOMAIN state.players THEN state
  ELSE
    LET player == state.players[player_id]
        ability_type == ability_for_form(player.form)
        cooldown == ABILITY_COOLDOWNS[player.form + 1] * FIXED_ONE
        s1 == CASE ability_type = "Dash" -> activate_dash(state, player_id, player.velocity)
                [] ability_type = "PhaseShift" -> activate_phase_shift(state, player_id)
                [] ability_type = "Repel" -> activate_repel(state, player_id, player.position)
                [] ability_type = "GravityWell" ->
                     activate_gravity_well(state, player_id, player.position)
                [] ability_type = "Consume" -> activate_consume(state, player_id)
        s2 == [s1 EXCEPT !.players[player_id].ability_cooldown = cooldown]
    IN  IF ~player.alive \/ ~ability_ready(player) THEN state
        ELSE push_event(s2, ability_used(state.tick, player_id, AbilityTypeIndex(ability_type)))

process_active_abilities(state) ==
  LET IsWell(e) == e.ability_type = "GravityWell"
      wells == FilterSeq(IsWell, state.active_abilities, 1)
      Slow(players, well) ==
        LET radius_sq == fixed_mul(well.radius, well.radius)
        IN  Tabulated([id \in DOMAIN players |->
               IF id = well.source_player \/ ~players[id].alive THEN players[id]
               ELSE IF distance_squared(well.position, players[id].position) < radius_sq
                 THEN [players[id] EXCEPT !.velocity = scale(@, 32768)]
               ELSE players[id]])
      Decay(e) == [e EXCEPT !.remaining_ticks = IF @ > 0 THEN @ - 1 ELSE 0]
      decayed == Tabulated([i \in 1..Len(state.active_abilities) |->
                             Decay(state.active_abilities[i])])
      Remains(e) == e.remaining_ticks > 0
  IN  [state EXCEPT !.players = FoldSeq(Slow, state.players, wells, 1),
                    !.active_abilities = FilterSeq(Remains, decayed, 1)]

\* ------------------------------------------------------------------------
\* game/tick.rs: inputs and physics
\* ------------------------------------------------------------------------

\* The movement and jump part of apply_inputs for one alive player.
ApplyInputToPlayer(player, input, tick) ==
  LET move_dir == move_direction(input)
      speed == Form_speed(player.form)
      move_len_sq == length_squared(move_dir)
      velocity == IF move_len_sq > FIXED_ONE THEN scale(normalize(move_dir), speed)
                  ELSE IF move_len_sq > 0 THEN scale(move_dir, speed)
                  ELSE ZERO
      p1 == [player EXCEPT !.velocity = velocity]
  IN  IF jump_pressed(input) /\ can_jump(p1, tick)
        THEN [p1 EXCEPT !.velocity.y = wrapping_add(@, JUMP_VELOCITY),
                        !.last_jump_tick = tick]
      ELSE p1

apply_inputs(state, inputs) ==
  LET Acts(id) == id \in DOMAIN state.players /\ state.players[id].alive
      s1 == [state EXCEPT !.players =
               Tabulated([id \in DOMAIN state.players |->
                  IF id \in DOMAIN inputs /\ Acts(id)
                    THEN ApplyInputToPlayer(state.players[id], inputs[id], state.tick)
                  ELSE state.players[id]])]
      Activates(id) == Acts(id) /\ ability_pressed(inputs[id])
                       /\ ability_ready(s1.players[id])
      ability_activations == FilterSeq(Activates, SortedSeq(DOMAIN inputs), 1)
  IN  FoldSeq(activate_ability, s1, ability_activations, 1)

TICK_DT == 1092

SPEED_BUFF_MULT == 91750

SHRINE_SPEED_MULT == 78643

FRICTION == FIXED_ONE - 3276

\* The body of update_physics' loop for one alive player.
PhysicsStep(player, hw, hh) ==
  LET v0 == player.velocity
      v1 == IF player.speed_buff_ticks > 0
              THEN Vec(fixed_mul(v0.x, SPEED_BUFF_MULT), fixed_mul(v0.y, SPEED_BUFF_MULT))
            ELSE v0
      v2 == IF has_shrine_buff(player, "Speed")
              THEN Vec(fixed_mul(v1.x, SHRINE_SPEED_MULT), fixed_mul(v1.y, SHRINE_SPEED_MULT))
            ELSE v1
      v3 == IF IsSome(player.dash_velocity) THEN vec_add(v2, player.dash_velocity[1]) ELSE v2
      px == wrapping_add(player.position.x, fixed_mul(v3.x, TICK_DT))
      py == wrapping_add(player.position.y, fixed_mul(v3.y, TICK_DT))
      p1 == [player EXCEPT
               !.dash_velocity = None,
               !.position = Vec(Min(Max(px, -hw), hw), Min(Max(py, -hh), hh)),
               !.ability_cooldown = IF @ > 0 THEN saturating_sub(@, FIXED_ONE) ELSE @,
               !.speed_buff_ticks = IF @ > 0 THEN @ - 1 ELSE @,
               !.shield_buff_ticks = IF @ > 0 THEN @ - 1 ELSE @,
               !.invulnerable_ticks = IF @ > 0 THEN @ - 1 ELSE @]
      p2 == update_shrine_buffs(p1)
  IN  [p2 EXCEPT !.velocity = Vec(fixed_mul(p2.velocity.x, FRICTION),
                                  fixed_mul(p2.velocity.y, FRICTION))]

update_physics(state) ==
  LET b == current_arena_bounds(state)
  IN  [state EXCEPT !.players =
         Tabulated([id \in DOMAIN state.players |->
            IF state.players[id].alive THEN PhysicsStep(state.players[id], b.hw, b.hh)
            ELSE state.players[id]])]

\* A shrink step that does not wait for the shrink start tick.
update_arena_shrink_from_start(state, config) ==
  [state EXCEPT !.arena_shrink = Min(@ + config.shrink_rate, FIXED_ONE)]

update_arena_shrink(state, config) ==
  IF state.tick < config.shrink_start_tick THEN state
  ELSE [state EXCEPT !.arena_shrink = Min(@ + config.shrink_rate, FIXED_ONE)]

\* ------------------------------------------------------------------------
\* game/tick.rs: player collisions
\* ------------------------------------------------------------------------

\* One iteration of process_player_collisions' loop: the loser is eliminated
\* and the event is pushed, whether or not the elimination took effect.
ProcessCollision(state, collision) ==
  LET placement == Cardinality(DOMAIN state.players) - state.next_placement
      s1 == eliminate_player(state, collision.loser, Some(collision.winner))
  IN  push_event(s1, player_eliminated(s1.tick, collision.loser,
                                       Some(collision.winner), placement))

process_player_collisions(state) ==
  FoldSeq(ProcessCollision, state, check_all_player_collisions(state), 1)

\* ------------------------------------------------------------------------
\* game/rune.rs
\* ------------------------------------------------------------------------

RUNE_BUFF_DURATION == 300

CHAOS_BUFF_DURATION == 600

CHAOS_BONUS_POINTS == 50

RuneType_value(t) ==
  CASE t = "Wisdom" -> 10 [] t = "Power" -> 15 [] t = "Speed" -> 12
    [] t = "Shield" -> 8 [] t = "Arcane" -> 25 [] t = "Chaos" -> 50

random_rune_type(rng) ==
  LET d == next_int(rng, 100)
      roll == d.value
  IN  [value |-> IF roll < 60 THEN "Wisdom" ELSE IF roll < 80 THEN "Power"
                 ELSE IF roll < 90 THEN "Speed" ELSE IF roll < 95 THEN "Shield"
                 ELSE IF roll < 99 THEN "Arcane" ELSE "Chaos",
       rng |-> d.rng]

apply_chaos_effect(state, player_id) ==
  LET d == next_int(state.rng, 4)
      s1 == [state EXCEPT !.rng = d.rng]
  IN  IF player_id \notin DOMAIN state.players THEN s1
      ELSE CASE d.value = 0 ->
                  [s1 EXCEPT !.players[player_id].speed_buff_ticks = CHAOS_BUFF_DURATION]
             [] d.value = 1 ->
                  [s1 EXCEPT !.players[player_id].shield_buff_ticks = CHAOS_BUFF_DURATION]
             [] d.value = 2 ->
                  [s1 EXCEPT !.players[player_id].ability_cooldown = 0]
             [] d.value = 3 ->
                  [s1 EXCEPT !.players[player_id] = add_score(@, CHAOS_BONUS_POINTS)]

\* collect_rune: the state after the call and the event it returns.  The rune
\* is marked collected before the collector is looked up.
collect_rune(state, player_id, rune_id) ==
  IF rune_id + 1 > Len(state.runes) THEN [state |-> state, event |-> None]
  ELSE IF state.runes[rune_id + 1].collected THEN [state |-> state, event |-> None]
  ELSE
    LET rune == state.runes[rune_id + 1]
        s1 == [state EXCEPT !.runes[rune_id + 1].collected = TRUE,
                            !.runes[rune_id + 1].collected_tick = Some(state.tick),
                            !.runes[rune_id + 1].collected_by = Some(player_id)]
        rune_type == rune.rune_type
    IN  IF player_id \notin DOMAIN s1.players THEN [state |-> s1, event |-> None]
        ELSE IF ~s1.players[player_id].alive THEN [state |-> s1, event |-> None]
        ELSE
          LET player == s1.players[player_id]
              points == IF has_shrine_buff(player, "Wisdom")
                          THEN RuneType_value(rune_type) * 2
                        ELSE RuneType_value(rune_type)
              p1 == CASE rune_type = "Speed" ->
                            [player EXCEPT !.speed_buff_ticks = RUNE_BUFF_DURATION]
                      [] rune_type = "Shield" ->
                            [player EXCEPT !.shield_buff_ticks = RUNE_BUFF_DURATION]
                      [] OTHER -> player
              p2 == add_score([p1 EXCEPT !.runes_collected = @ + 1], points)
              evolved == p2.form # player.form
              s2 == [s1 EXCEPT !.players[player_id] = p2]
              s3 == IF evolved
                      THEN push_event(s2, form_evolved(s2.tick, player_id, player.form, p2.form))
                    ELSE s2
              s4 == IF rune_type = "Chaos" THEN apply_chaos_effect(s3, player_id) ELSE s3
          IN  [state |-> s4,
               event |-> Some(rune_collected(s2.tick, player_id, rune_id, rune_type,
                                             points, p2.score))]

ProcessRuneCollision(state, collision) ==
  LET r == collect_rune(state, collision.player_id, collision.rune_id)
  IN  IF IsSome(r.event) THEN push_event(r.state, r.event[1]) ELSE r.state

process_rune_collisions(state) ==
  FoldSeq(ProcessRuneCollision, state, check_all_rune_collisions(state), 1)

\* ArcaneCircuitMap::random_pellet_position: one draw selects the map region
\* by weight; the point inside the region is represented by a uniform arena
\* position from the same generator.
random_pellet_position(rng, weight_hubs, weight_corridors, weight_spawns) ==
  LET total == weight_hubs + weight_corridors + weight_spawns
  IN  IF total = 0 THEN [value |-> ZERO, rng |-> rng]
      ELSE random_position(next_int(rng, total).rng)

\* One iteration of the loop of spawn_runes.
SpawnOne(state, config, weight_spawns, emit_events) ==
  LET dp == random_pellet_position(state.rng, config.weight_hubs,
                                   config.weight_corridors, weight_spawns)
      dt == random_rune_type(dp.rng)
      s1 == spawn_rune([state EXCEPT !.rng = dt.rng], dp.value, dt.value)
  IN  IF emit_events
        THEN push_event(s1, rune_spawned(s1.tick, state.next_rune_id, dt.value, dp.value))
      ELSE s1

RECURSIVE SpawnLoop(_, _, _, _, _)
SpawnLoop(state, config, weight_spawns, n, emit_events) ==
  IF n = 0 THEN state
  ELSE SpawnLoop(SpawnOne(state, config, weight_spawns, emit_events),
                 config, weight_spawns, n - 1, emit_events)

\* spawn_runes(count, emit_events, weight_spawns_override)
spawn_runes(state, config, count, emit_events, weight_spawns_override) ==
  LET uncollected_count ==
        Cardinality({i \in 1..Len(state.runes) : ~state.runes[i].collected})
      weight_spawns == IF IsSome(weight_spawns_override) THEN weight_spawns_override[1]
                       ELSE config.weight_spawns
  IN  IF uncollected_count >= config.max_runes THEN state
      ELSE SpawnLoop(state, config, weight_spawns,
                     Min(count, config.max_runes - uncollected_count), emit_events)

maybe_spawn_runes(state, config) ==
  IF state.phase.name # "Playing" THEN state
  ELSE LET s1 == IF state.tick = 1 /\ state.runes = <<>>
                   THEN spawn_runes(state, config, config.initial_spawn_count, FALSE, None)
                 ELSE state
       IN  IF s1.tick % config.spawn_interval = 0
             THEN spawn_runes(s1, config, config.spawn_count, TRUE, Some(0))
           ELSE s1

\* ------------------------------------------------------------------------
\* game/tick.rs: zone damage
\* ------------------------------------------------------------------------

REGEN_RATE == 328

ZONE_DISTANCE_FACTOR == 655

SHIELD_DAMAGE_MULT == 32768

Abs(x) == IF x < 0 THEN -x ELSE x

IsOutside(player, hw, hh) ==
  \/ player.position.x < -hw \/ player.position.x > hw
  \/ player.position.y < -hh \/ player.position.y > hh

\* The body of process_zone_damage's first loop for one alive player.
ZoneStep(player, hw, hh, config) ==
  IF IsOutside(player, hw, hh)
    THEN LET dist(c, h) == IF c < -h THEN Abs(saturating_sub(-h, c))
                           ELSE IF c > h THEN Abs(saturating_sub(c, h))
                           ELSE 0
             dist_factor == fixed_mul(saturating_add(dist(player.position.x, hw),
                                                     dist(player.position.y, hh)),
                                      ZONE_DISTANCE_FACTOR)
             damage == saturating_add(config.zone_damage_rate, dist_factor)
             shield_mult == IF HasShield(player) THEN SHIELD_DAMAGE_MULT ELSE FIXED_ONE
             final_damage == fixed_mul(damage, shield_mult)
         IN  [player EXCEPT !.health = saturating_sub(@, final_damage)]
  ELSE [player EXCEPT !.health = Min(saturating_add(@, REGEN_RATE), player.max_health)]

\* One iteration of the elimination loop: the event is built before the
\* player is eliminated.
ZoneEliminate(state, player_id) ==
  LET n == Cardinality(DOMAIN state.players)
      event == player_eliminated(state.tick, player_id, None,
                                 IF n >= state.next_placement
                                   THEN n - state.next_placement ELSE 0)
  IN  push_event(eliminate_player(state, player_id, None), event)

process_zone_damage(state, config) ==
  LET b == current_arena_bounds(state)
      s1 == [state EXCEPT !.players =
               Tabulated([id \in DOMAIN state.players |->
                  IF state.players[id].alive
                    THEN ZoneStep(state.players[id], b.hw, b.hh, config)
                  ELSE state.players[id]])]
      Dies(id) == /\ state.players[id].alive
                  /\ IsOutside(state.players[id], b.hw, b.hh)
                  /\ s1.players[id].health <= 0
      to_eliminate == FilterSeq(Dies, SortedSeq(DOMAIN state.players), 1)
  IN  FoldSeq(ZoneEliminate, s1, to_eliminate, 1)

\* ------------------------------------------------------------------------
\* game/shrine.rs
\* ------------------------------------------------------------------------

SHRINE_RADIUS == 196608

CHANNEL_TICKS == 300

COOLDOWN_TICKS == 3600

SHRINE_POSITIONS ==
  << <<2293760, 2293760, "Wisdom">>, <<-2293760, 2293760, "Power">>,
     <<-2293760, -2293760, "Speed">>, <<2293760, -2293760, "Shield">> >>

ShrineState_new(id, position, shrine_type) ==
  [ id |-> id, position |-> position, shrine_type |-> shrine_type, active |-> TRUE,
    channeling_player |-> None, channel_progress |-> 0, cooldown |-> 0 ]

\* A start of play that leaves the shrine list as it is.
spawn_shrines_none(state) == state

\* spawn_shrines: the four fixed shrines are appended to the shrine list.
spawn_shrines(state) ==
  [state EXCEPT !.shrines =
     @ \o Tabulated([i \in 1..Len(SHRINE_POSITIONS) |->
             ShrineState_new(i - 1, Vec(SHRINE_POSITIONS[i][1], SHRINE_POSITIONS[i][2]),
                             SHRINE_POSITIONS[i][3])])]

is_player_on_shrine(player_pos, player_radius, shrine) ==
  circles_overlap(player_pos, player_radius, shrine.position, SHRINE_RADIUS)

\* The cooldown a completed shrine is given: COOLDOWN_TICKS * FIXED_ONE / 60.
ShrineCooldown == (COOLDOWN_TICKS * FIXED_ONE) \div 60

\* The first alive player, in id order, standing on the shrine.
PlayerOnShrine(state, shrine) ==
  LET on == {id \in DOMAIN state.players :
               /\ state.players[id].alive
               /\ is_player_on_shrine(state.players[id].position,
                                      Form_radius(state.players[id].form), shrine)}
  IN  IF on = {} THEN None ELSE Some(MinOf(on))

\* The action process_shrines decides for one shrine of the state at entry.
ShrineAction(state, shrine, config) ==
  IF ~shrine.active THEN [kind |-> "None"]
  ELSE
    LET on == PlayerOnShrine(state, shrine)
        cur == shrine.channeling_player
        new_progress == saturating_add(shrine.channel_progress, config.channel_rate)
    IN  IF cur = None /\ on = None THEN [kind |-> "None"]
        ELSE IF cur = None
          THEN [kind |-> "StartChannel", shrine_id |-> shrine.id, player_id |-> on[1]]
        ELSE IF on = None
          THEN [kind |-> "InterruptChannel", shrine_id |-> shrine.id, player_id |-> cur[1]]
        ELSE IF cur = on
          THEN (IF new_progress >= FIXED_ONE
                  THEN [kind |-> "CompleteChannel", shrine_id |-> shrine.id,
                        player_id |-> cur[1], shrine_type |-> shrine.shrine_type]
                ELSE [kind |-> "ContinueChannel", shrine_id |-> shrine.id,
                      progress |-> new_progress])
        ELSE [kind |-> "StartNewChannel", shrine_id |-> shrine.id,
              old_player |-> cur[1], new_player |-> on[1]]

\* The events process_shrines records for one decided action.
ShrineEvents(tick, a) ==
  CASE a.kind = "StartChannel" -> <<shrine_channel_started(tick, a.player_id, a.shrine_id)>>
    [] a.kind = "CompleteChannel" -> <<shrine_activated(tick, a.player_id, a.shrine_id)>>
    [] a.kind = "InterruptChannel" ->
         <<shrine_channel_interrupted(tick, a.player_id, a.shrine_id)>>
    [] a.kind = "StartNewChannel" ->
         <<shrine_channel_interrupted(tick, a.old_player, a.shrine_id),
           shrine_channel_started(tick, a.new_player, a.shrine_id)>>
    [] OTHER -> <<>>

\* Index of the first shrine with the given id (iter_mut().find), 0 if none.
FindShrine(shrines, id) ==
  LET hits == {i \in 1..Len(shrines) : shrines[i].id = id}
  IN  IF hits = {} THEN 0 ELSE MinOf(hits)

\* An application of shrine actions whose interruption clears the channeler
\* and leaves the progress as it was.
ApplyShrineAction_keeps_progress(state, a, config) ==
  IF a.kind = "None" THEN state
  ELSE
    LET i == FindShrine(state.shrines, a.shrine_id)
        s1 == IF i = 0 THEN state
              ELSE CASE a.kind = "StartChannel" ->
                          [state EXCEPT !.shrines[i].channeling_player = Some(a.player_id),
                                        !.shrines[i].channel_progress = config.channel_rate]
                     [] a.kind = "ContinueChannel" ->
                          [state EXCEPT !.shrines[i].channel_progress = a.progress]
                     [] a.kind = "CompleteChannel" ->
                          [state EXCEPT !.shrines[i].active = FALSE,
                                        !.shrines[i].cooldown = ShrineCooldown,
                                        !.shrines[i].channeling_player = None,
                                        !.shrines[i].channel_progress = 0]
                     [] a.kind = "InterruptChannel" ->
                          [state EXCEPT !.shrines[i].channeling_player = None]
                     [] a.kind = "StartNewChannel" ->
                          [state EXCEPT !.shrines[i].channeling_player = Some(a.new_player),
                                        !.shrines[i].channel_progress = config.channel_rate]
    IN  IF a.kind = "CompleteChannel" /\ a.player_id \in DOMAIN s1.players
          THEN [s1 EXCEPT !.players[a.player_id] =
                            add_shrine_buff(@, a.shrine_type, config.buff_duration)]
        ELSE s1

ApplyShrineAction(state, a, config) ==
  IF a.kind = "None" THEN state
  ELSE
    LET i == FindShrine(state.shrines, a.shrine_id)
        s1 == IF i = 0 THEN state
              ELSE CASE a.kind = "StartChannel" ->
                          [state EXCEPT !.shrines[i].channeling_player = Some(a.player_id),
                                        !.shrines[i].channel_progress = config.channel_rate]
                     [] a.kind = "ContinueChannel" ->
                          [state EXCEPT !.shrines[i].channel_progress = a.progress]
                     [] a.kind = "CompleteChannel" ->
                          [state EXCEPT !.shrines[i].active = FALSE,
                                        !.shrines[i].cooldown = ShrineCooldown,
                                        !.shrines[i].channeling_player = None,
                                        !.shrines[i].channel_progress = 0]
                     [] a.kind = "InterruptChannel" ->
                          [state EXCEPT !.shrines[i].channeling_player = None,
                                        !.shrines[i].channel_progress = 0]
                     [] a.kind = "StartNewChannel" ->
                          [state EXCEPT !.shrines[i].channeling_player = Some(a.new_player),
                                        !.shrines[i].channel_progress = config.channel_rate]
    IN  IF a.kind = "CompleteChannel" /\ a.player_id \in DOMAIN s1.players
          THEN [s1 EXCEPT !.players[a.player_id] =
                            add_shrine_buff(@, a.shrine_type, config.buff_duration)]
        ELSE s1

process_shrines(state, config) ==
  LET actions == Tabulated([i \in 1..Len(state.shrines) |->
                             ShrineAction(state, state.shrines[i], config)])
      EventsOf(a) == ShrineEvents(state.tick, a)
      events == FlatMap(EventsOf, actions, 1)
      DecayCooldown(sh) ==
        IF ~sh.active /\ sh.cooldown > 0
          THEN LET c == saturating_sub(sh.cooldown, FIXED_ONE)
               IN  [sh EXCEPT !.cooldown = c, !.active = (c <= 0)]
        ELSE sh
      s1 == [state EXCEPT !.shrines =
               Tabulated([i \in 1..Len(state.shrines) |->
                            DecayCooldown(state.shrines[i])])]
      Apply(s, a) == ApplyShrineAction(s, a, config)
      s2 == FoldSeq(Apply, s1, actions, 1)
  IN  FoldSeq(push_event, s2, events, 1)

\* ------------------------------------------------------------------------
\* game/tick.rs: end of match and the tick function
\* ------------------------------------------------------------------------

\* The alive player that is greatest by (score, id), if any.
Winner(state) ==
  LET alive == {id \in DOMAIN state.players : state.players[id].alive}
      Beats(a, b) == \/ state.players[a].score > state.players[b].score
                     \/ state.players[a].score = state.players[b].score /\ a >= b
  IN  IF alive = {} THEN None
      ELSE Some(CHOOSE a \in alive : \A b \in alive : Beats(a, b))

\* end_match: the state and the winner it reports.
end_match(state) ==
  LET winner == Winner(state)
      s1 == [state EXCEPT !.phase = Ended]
      s2 == IF IsSome(winner) THEN [s1 EXCEPT !.players[winner[1]].placement = Some(1)] ELSE s1
  IN  [state |-> push_event(s2, match_ended(s2.tick, winner)),
       match_ended |-> TRUE, winner |-> winner]

check_end_conditions(state) ==
  IF state.tick >= MATCH_DURATION_TICKS THEN end_match(state)
  ELSE IF state.alive_count <= 1 THEN end_match(state)
  ELSE [state |-> state, match_ended |-> FALSE, winner |-> None]

TickResult(events, ended, winner) ==
  [events |-> events, match_ended |-> ended, winner |-> winner]

\* The state as the Playing branch of tick leaves it just before player
\* collisions are processed: tick counter advanced, inputs applied, physics
\* and arena shrink updated.
BeforeCollisions(state, inputs, config) ==
  update_arena_shrink(update_physics(apply_inputs([state EXCEPT !.tick = @ + 1], inputs)),
                      config)

\* The end of tick: the pending events are taken out of the state and returned
\* with the outcome e of check_end_conditions.
TickOutcome(e) ==
  [state |-> take_events(e.state).state,
   result |-> TickResult(take_events(e.state).events, e.match_ended, e.winner)]

\* tick(state, inputs, config): the state after the call and its TickResult.
tick(state, inputs, config) ==
  CASE state.phase.name = "Waiting" ->
         [state |-> state, result |-> TickResult(<<>>, FALSE, None)]
    [] state.phase.name = "Countdown" ->
         [state |-> IF state.phase.ticks_remaining = 0
                      THEN spawn_shrines([state EXCEPT !.phase = Playing])
                    ELSE [state EXCEPT !.phase = Countdown(state.phase.ticks_remaining - 1)],
          result |-> TickResult(<<>>, FALSE, None)]
    [] state.phase.name = "Ended" ->
         [state |-> state, result |-> TickResult(<<>>, TRUE, None)]
    [] state.phase.name = "Playing" ->
         TickOutcome(check_end_conditions(
           Then(Then(Then(Then(Then(Then(
             BeforeCollisions(state, inputs, config),
             process_player_collisions),
             process_rune_collisions),
             LAMBDA s : process_zone_damage(s, config)),
             LAMBDA s : maybe_spawn_runes(s, config.rune_spawn)),
             LAMBDA s : process_shrines(s, config.shrine)),
             process_active_abilities)))

\* ------------------------------------------------------------------------
\* Program state
\* ------------------------------------------------------------------------

VARIABLES
  match_state,   \* the MatchState a caller of tick owns
  result,        \* the TickResult of the latest tick call
  session,       \* a MatchSession: its state, players, game state, transcript
  end_info,      \* what MatchSession::finalize returned, if it was called
  transcript,    \* a MatchTranscript handed to verify_transcript
  verification,  \* the VerificationResult of the latest verify_transcript
  reveal,        \* a commitment, its reveal and the outcome of MatchReveal::verify
  probe          \* two players handed to check_player_collision, and the outcomes

vars == <<match_state, result, session, end_info, transcript, verification, reveal, probe>>

\* ------------------------------------------------------------------------
\* Bounds of the model
\* ------------------------------------------------------------------------

\* Player ids are 1..MaxPlayers.
MaxPlayers == 3

\* Seeds are 0..NumSeeds-1.
NumSeeds == 3

\* tick is called while the tick counter is below MaxTick.
MaxTick == 2

\* Countdowns start from at most MaxCountdown.
MaxCountdown == 1

\* The rune spawn configuration, with RuneSpawnConfig::default()'s counts
\* (6000 initial runes, 25 per interval of 60 ticks, at most 7000) scaled down.
InitialSpawnCount == 2

SpawnCount == 1

SpawnInterval == 2

MaxRunes == 3

PlayerIds == 1..MaxPlayers

Seeds == 0..(NumSeeds - 1)

MatchId == 1

\* MatchConfig::default() over the scaled rune spawn configuration.
DefaultConfig ==
  [ rune_spawn |-> [ initial_spawn_count |-> InitialSpawnCount,
                     spawn_interval |-> SpawnInterval,
                     spawn_count |-> SpawnCount,
                     max_runes |-> MaxRunes,
                     weight_hubs |-> 60, weight_corridors |-> 30, weight_spawns |-> 10 ],
    shrine |-> [channel_rate |-> 218, buff_duration |-> 1800],
    shrink_start_tick |-> 1800,
    shrink_rate |-> 18,
    zone_damage_rate |-> 3276 ]

\* The input frames a player sends: no input, full left, and full diagonal
\* with the jump and ability flags set.
InputChoices ==
  { InputFrame_new, InputFrame(-127, 0, 0), InputFrame(127, 127, FLAG_JUMP + FLAG_ABILITY) }

NoResult == TickResult(<<>>, FALSE, None)

\* Values of the variables a specification does not use.
NoSession == [state |-> "Unused"]

NoTranscript == [version |-> 0]

NoVerification == [valid |-> FALSE, error |-> "Unused"]

NoReveal == [outcome |-> "Unused"]

NoProbe == [checked |-> FALSE]

\* ------------------------------------------------------------------------
\* proof/transcript.rs
\* ------------------------------------------------------------------------

TRANSCRIPT_VERSION == 1

CHECKPOINT_INTERVAL == 600

\* MatchMetadata; the wall-clock start_timestamp is not part of the model.
MatchMetadata(match_id, block_hash, player_ids, rng_seed) ==
  [match_id |-> match_id, block_hash |-> block_hash, player_ids |-> player_ids,
   rng_seed |-> rng_seed, config_hash |-> ZeroHash]

InitialMatchState(players, rng_state, state_hash) ==
  [players |-> players, rng_state |-> rng_state, state_hash |-> state_hash]

InitialPlayerState(player_id, position, form) ==
  [player_id |-> player_id, position |-> position, form |-> form]

InputDelta(tick_, frame) == [tick |-> tick_, frame |-> frame]

PlayerInputRecord(player_id, deltas) ==
  [player_id |-> player_id, deltas |-> deltas, input_count |-> Len(deltas)]

MatchResult(end_tick, winner_id, placements, final_state_hash) ==
  [end_tick |-> end_tick, winner_id |-> winner_id, placements |-> placements,
   final_state_hash |-> final_state_hash]

MatchTranscript_new(metadata) ==
  [version |-> TRANSCRIPT_VERSION, metadata |-> metadata,
   initial_state |-> InitialMatchState(<<>>, ZeroRngState, ZeroHash),
   player_inputs |-> <<>>, checkpoints |-> <<>>, result |-> None, events |-> <<>>]

set_initial_state(t, state) == [t EXCEPT !.initial_state = state]

add_player_inputs(t, record) == [t EXCEPT !.player_inputs = Append(@, record)]

add_checkpoint(t, tick_, state_hash, rng_state) ==
  [t EXCEPT !.checkpoints =
     Append(@, [tick |-> tick_, state_hash |-> state_hash, rng_state |-> rng_state])]

\* TranscriptEvent::from_game_event: the four recorded kinds, or None.
from_game_event(event) ==
  CASE event.data[1] = "PlayerEliminated" ->
         Some(<<"PlayerEliminated", event.tick, event.data[2], event.data[3], event.data[4]>>)
    [] event.data[1] = "FormEvolved" ->
         Some(<<"FormEvolved", event.tick, event.data[2], event.data[4]>>)
    [] event.data[1] = "RuneCollected" ->
         Some(<<"RuneCollected", event.tick, event.data[2], event.data[3], event.data[5]>>)
    [] event.data[1] = "ShrineActivated" ->
         Some(<<"ShrineActivated", event.tick, event.data[2], event.data[3]>>)
    [] OTHER -> None

record_event(t, event) == [t EXCEPT !.events = @ \o from_game_event(event)]

transcript_finalize(t, result_) == [t EXCEPT !.result = Some(result_)]

\* ------------------------------------------------------------------------
\* proof/verify.rs
\* ------------------------------------------------------------------------

\* VerificationError: the variants verify_transcript constructs.
InitialStateMismatch(expected, computed) ==
  [name |-> "InitialStateMismatch", expected |-> expected, computed |-> computed]

CheckpointMismatch(tick_, expected, computed) ==
  [name |-> "CheckpointMismatch", tick |-> tick_, expected |-> expected,
   computed |-> computed]

FinalStateMismatch(expected, computed) ==
  [name |-> "FinalStateMismatch", expected |-> expected, computed |-> computed]

IncompleteTranscript == [name |-> "IncompleteTranscript"]

VerificationResult(valid, computed, expected, checkpoint_results, error) ==
  [valid |-> valid, computed_final_hash |-> computed, expected_final_hash |-> expected,
   checkpoint_results |-> checkpoint_results, error |-> error]

reconstruct_initial_state(t) ==
  LET Insert(state, player) ==
        [state EXCEPT
           !.players = MapInsert(@, player.player_id,
                         [PlayerState_new(player.player_id, player.position) EXCEPT
                            !.form = Form_from_index_or_default(player.form)]),
           !.alive_count = @ + 1]
  IN  FoldSeq(Insert,
              [MatchState_new(t.metadata.match_id, t.metadata.rng_seed) EXCEPT
                 !.rng = t.initial_state.rng_state],
              t.initial_state.players, 1)

\* build_input_lookup: player id -> the frames of its record; a later record
\* of the same player replaces an earlier one.
build_input_lookup(t) ==
  LET Insert(lookup, record) == MapInsert(lookup, record.player_id, record.deltas)
  IN  FoldSeq(Insert, <<>>, t.player_inputs, 1)

\* The most recent frame at or before the tick, searched from the end.
RECURSIVE FrameAt(_, _, _)
FrameAt(frames, tick_, i) ==
  IF i = 0 THEN InputFrame_new
  ELSE IF frames[i].tick <= tick_ THEN frames[i].frame
  ELSE FrameAt(frames, tick_, i - 1)

get_inputs_at_tick(lookup, tick_) ==
  Tabulated([id \in DOMAIN lookup |-> FrameAt(lookup[id], tick_, Len(lookup[id]))])

\* The state the replay loop of verify_transcript holds after tick_num
\* iterations.
RECURSIVE replay(_, _)
replay(t, tick_num) ==
  IF tick_num = 0 THEN [reconstruct_initial_state(t) EXCEPT !.phase = Playing]
  ELSE Then(replay(t, tick_num - 1),
            LAMBDA s : tick(s, get_inputs_at_tick(build_input_lookup(t), tick_num),
                            DefaultConfig).state)

\* Steps 4 and 5 of verify_transcript: the loop from tick_num on, with the
\* state reached so far, the index of the next checkpoint and the results
\* gathered, then the comparison of the final hash.
RECURSIVE ReplayLoop(_, _, _, _, _)
ReplayLoop(t, state, tick_num, checkpoint_idx, checkpoint_results) ==
  IF tick_num > t.result[1].end_tick
    THEN VerificationResult(compute_hash(state) = t.result[1].final_state_hash,
                            compute_hash(state), t.result[1].final_state_hash,
                            checkpoint_results,
                            IF compute_hash(state) = t.result[1].final_state_hash
                              THEN None
                            ELSE Some(FinalStateMismatch(t.result[1].final_state_hash,
                                                         compute_hash(state))))
  ELSE
    LET Ticked(s) ==
          IF checkpoint_idx < Len(t.checkpoints)
             /\ t.checkpoints[checkpoint_idx + 1].tick = s.tick
            THEN IF compute_hash(s) # t.checkpoints[checkpoint_idx + 1].state_hash
                   THEN VerificationResult(FALSE, compute_hash(s),
                          t.checkpoints[checkpoint_idx + 1].state_hash,
                          Append(checkpoint_results,
                                 [tick |-> s.tick, valid |-> FALSE]),
                          Some(CheckpointMismatch(
                                 t.checkpoints[checkpoint_idx + 1].tick,
                                 t.checkpoints[checkpoint_idx + 1].state_hash,
                                 compute_hash(s))))
                 ELSE ReplayLoop(t, s, tick_num + 1, checkpoint_idx + 1,
                                 Append(checkpoint_results,
                                        [tick |-> s.tick, valid |-> TRUE]))
          ELSE ReplayLoop(t, s, tick_num + 1, checkpoint_idx, checkpoint_results)
    IN  Then(tick(state, get_inputs_at_tick(build_input_lookup(t), tick_num),
                  DefaultConfig).state,
             Ticked)

verify_transcript(t) ==
  IF t.result = None
    THEN VerificationResult(FALSE, ZeroHash, ZeroHash, <<>>, Some(IncompleteTranscript))
  ELSE IF compute_hash(reconstruct_initial_state(t)) # t.initial_state.state_hash
    THEN VerificationResult(FALSE, compute_hash(reconstruct_initial_state(t)),
                            t.initial_state.state_hash, <<>>,
                            Some(InitialStateMismatch(t.initial_state.state_hash,
                                   compute_hash(reconstruct_initial_state(t)))))
  ELSE ReplayLoop(t, [reconstruct_initial_state(t) EXCEPT !.phase = Playing], 1, 0, <<>>)

\* ------------------------------------------------------------------------
\* proof/commitment.rs
\*
\* A 32-byte value that is hashed (block hash, config hash, nonce) is a pair
\* of 16-byte words.
\* ------------------------------------------------------------------------

CommitmentPreimage(match_id, player_ids, config_hash, player_nonces, server_nonce) ==
  [match_id |-> match_id, player_ids |-> player_ids, config_hash |-> config_hash,
   player_nonces |-> player_nonces, server_nonce |-> server_nonce]

Identity(x) == x

\* compute_commitment_hash: the bytes fed to the hasher, one field after the
\* other without separators.
compute_commitment_hash(preimage) ==
  Sha256("RUNE_RELIC_COMMIT_V1",
         <<preimage.match_id>> \o preimage.player_ids \o preimage.config_hash
         \o FlatMap(Identity, preimage.player_nonces, 1) \o preimage.server_nonce)

from_preimage(preimage, block_min, block_max) ==
  [commitment_hash |-> compute_commitment_hash(preimage),
   block_height_min |-> block_min, block_height_max |-> block_max]

\* MatchCommitment::verify(preimage).
commitment_verify(commitment, preimage) ==
  compute_commitment_hash(preimage) = commitment.commitment_hash

\* A range check that leaves out the upper bound.
is_block_below_max(commitment, block_height) ==
  block_height >= commitment.block_height_min /\ block_height < commitment.block_height_max

is_block_in_range(commitment, block_height) ==
  block_height >= commitment.block_height_min /\ block_height <= commitment.block_height_max

RECURSIVE InsertSorted(_, _)
InsertSorted(sorted, x) ==
  IF sorted = <<>> THEN <<x>>
  ELSE IF x < Head(sorted) THEN <<x>> \o sorted
  ELSE <<Head(sorted)>> \o InsertSorted(Tail(sorted), x)

\* Vec::sort on a vector of ids.
sort(ids) == FoldSeq(InsertSorted, <<>>, ids, 1)

MatchReveal_new(preimage, block_hash, block_height, transcript_) ==
  [preimage |-> preimage, block_hash |-> block_hash, block_height |-> block_height,
   transcript |-> transcript_]

\* MatchReveal::verify: "Ok", or the name of the first error.
MatchReveal_verify(r, commitment) ==
  IF ~commitment_verify(commitment, r.preimage) THEN "PreimageMismatch"
  ELSE IF ~is_block_in_range(commitment, r.block_height) THEN "BlockOutOfRange"
  ELSE IF r.transcript.metadata.rng_seed
          # derive_match_seed(r.block_hash, r.preimage.match_id, r.preimage.player_ids)
    THEN "SeedMismatch"
  ELSE IF r.transcript.metadata.match_id # r.preimage.match_id THEN "MatchIdMismatch"
  ELSE IF sort(r.transcript.metadata.player_ids) # sort(r.preimage.player_ids)
    THEN "PlayerIdsMismatch"
  ELSE "Ok"

\* ------------------------------------------------------------------------
\* The match simulation driven directly through MatchState and tick
\* ------------------------------------------------------------------------

Init ==
  /\ \E seed \in Seeds : match_state = MatchState_new(MatchId, seed)
  /\ result = NoResult
  /\ session = NoSession
  /\ end_info = None
  /\ transcript = NoTranscript
  /\ verification = NoVerification
  /\ reveal = NoReveal
  /\ probe = NoProbe

\* MatchState::add_player, called for the participants in ascending id order
\* before the match leaves Waiting.
AddPlayer(id) ==
  /\ match_state.phase.name = "Waiting"
  /\ \A other \in DOMAIN match_state.players : other < id
  /\ match_state' = add_player(match_state, id)
  /\ UNCHANGED <<result, session, end_info, transcript, verification, reveal, probe>>

\* The owner of the state starts the countdown (phase is a public field).
BeginCountdown(n) ==
  /\ match_state.phase.name = "Waiting"
  /\ DOMAIN match_state.players # {}
  /\ match_state' = [match_state EXCEPT !.phase = Countdown(n)]
  /\ UNCHANGED <<result, session, end_info, transcript, verification, reveal, probe>>

\* The owner of the state starts play at once, as MatchSession::begin_playing
\* and replay_match do.
BeginPlaying ==
  /\ match_state.phase.name = "Waiting"
  /\ DOMAIN match_state.players # {}
  /\ match_state' = [match_state EXCEPT !.phase = Playing]
  /\ UNCHANGED <<result, session, end_info, transcript, verification, reveal, probe>>

\* One call of tick with an input frame for every player.
Tick(inputs) ==
  /\ match_state.tick < MaxTick
  /\ \E r \in {tick(match_state, inputs, DefaultConfig)} :
       /\ match_state' = r.state
       /\ result' = r.result
  /\ UNCHANGED <<session, end_info, transcript, verification, reveal, probe>>

Next ==
  \/ \E id \in PlayerIds : AddPlayer(id)
  \/ \E n \in 0..MaxCountdown : BeginCountdown(n)
  \/ BeginPlaying
  \/ \E inputs \in [DOMAIN match_state.players -> InputChoices] : Tick(inputs)

Spec == Init /\ [][Next]_vars

\* ------------------------------------------------------------------------
\* Properties of tick (specification Spec)
\* ------------------------------------------------------------------------

\* The input maps a caller can pass to tick in the current state.
InputMaps == [DOMAIN match_state.players -> InputChoices]

PhaseRank(phase) ==
  CASE phase.name = "Waiting" -> 0
    [] phase.name = "Countdown" -> 1
    [] phase.name = "Playing" -> 2
    [] phase.name = "Ended" -> 3

\* The shrine list holds exactly the four fixed shrines, untouched.
FourFixedShrines(shrines) ==
  /\ Len(shrines) = 4
  /\ shrines[1] = ShrineState_new(0, Vec(2293760, 2293760), "Wisdom")
  /\ shrines[2] = ShrineState_new(1, Vec(-2293760, 2293760), "Power")
  /\ shrines[3] = ShrineState_new(2, Vec(-2293760, -2293760), "Speed")
  /\ shrines[4] = ShrineState_new(3, Vec(2293760, -2293760), "Shield")

\* What a tick call does outside the Playing phase, whatever its inputs.
TickOutsidePlaying ==
  \A inputs \in InputMaps :
    LET After(s) ==
          CASE match_state.phase.name = "Waiting" -> s = match_state
            [] match_state.phase.name = "Ended" -> s = match_state
            [] match_state.phase.name = "Countdown"
                 /\ match_state.phase.ticks_remaining > 0 ->
                 s = [match_state EXCEPT
                        !.phase = Countdown(match_state.phase.ticks_remaining - 1)]
            [] match_state.phase.name = "Countdown"
                 /\ match_state.phase.ticks_remaining = 0 ->
                 /\ s.phase = Playing
                 /\ FourFixedShrines(s.shrines)
            [] OTHER -> TRUE
    IN  match_state.phase.name # "Playing"
          => After(tick(match_state, inputs, DefaultConfig).state)

\* C6: tick only ever moves the phase forward along Waiting, Countdown,
\* Playing, Ended.  In Waiting a tick changes nothing; in Countdown(n) it
\* lowers n by one, and at zero it spawns the four fixed shrines and enters
\* Playing; a tick in Playing leaves the phase Playing or Ended; in Ended a
\* tick changes nothing.
C6_PhaseOnlyMovesForward ==
  /\ []TickOutsidePlaying
  /\ [][ /\ PhaseRank(match_state'.phase) >= PhaseRank(match_state.phase)
         /\ match_state.phase.name = "Playing"
              => match_state'.phase.name \in {"Playing", "Ended"}
         /\ match_state.phase.name = "Ended" => match_state' = match_state ]_vars

\* A match that went through the countdown, was played and has ended.
C6_Witness ==
  /\ match_state.phase.name = "Ended"
  /\ Len(match_state.shrines) = 4
  /\ match_state.tick > 0

\* The fields of a player that its elimination freezes (all but placement).
Frozen(p, q) ==
  /\ p.alive = q.alive
  /\ p.position = q.position
  /\ p.velocity = q.velocity
  /\ p.form = q.form
  /\ p.score = q.score
  /\ p.kills = q.kills
  /\ p.eliminated_tick = q.eliminated_tick
  /\ p.eliminated_by = q.eliminated_by

\* The state after process_player_collisions has handled the first k of the
\* collisions cols.
AfterCollisions(state, cols, k) ==
  FoldSeq(ProcessCollision, state, SubSeq(cols, 1, k), 1)

\* C8: a player is eliminated at most once and from then on nothing about
\* the player changes except its placement.  Stated for the collision step
\* of a tick from the current state: a player that is no longer alive after
\* the first k collisions of the tick has the same alive flag, position,
\* velocity, tier, score, kills, elimination tick and killer after the next
\* collision.
C8_EliminatedPlayerIsFrozen ==
  match_state.phase.name = "Playing" =>
    \A inputs \in InputMaps :
      LET Holds(s3, cols) ==
            \A k \in 0..(Len(cols) - 1) : \A id \in DOMAIN s3.players :
              ~AfterCollisions(s3, cols, k).players[id].alive
                => Frozen(AfterCollisions(s3, cols, k).players[id],
                          AfterCollisions(s3, cols, k + 1).players[id])
          From(s3) == Holds(s3, check_all_player_collisions(s3))
      IN  From(BeforeCollisions(match_state, inputs, DefaultConfig))

\* C10: the events returned by one tick call are ordered by (tick, category
\* priority, player id).
C10_ReturnedEventsAreOrdered ==
  \A i, j \in 1..Len(result.events) :
    i < j => EventLeq(result.events[i], result.events[j])

\* The player is absent from the match or has been eliminated.
AbsentOrEliminated(state, player_id) ==
  player_id \notin DOMAIN state.players \/ ~state.players[player_id].alive

\* C23: asking to collect a rune that is already collected, or for a player
\* who is absent or eliminated, returns no event and leaves the match state
\* as it was.
C23_RefusedCollectionHasNoEffect ==
  \A player_id \in 1..(MaxPlayers + 1) :
    \A rune_id \in 0..(Len(match_state.runes) - 1) :
      (match_state.runes[rune_id + 1].collected
         \/ AbsentOrEliminated(match_state, player_id))
        => collect_rune(match_state, player_id, rune_id)
             = [state |-> match_state, event |-> None]

\* The input map without the entry of one player.
WithoutEntry(inputs, id) == Tabulated([x \in (DOMAIN inputs) \ {id} |-> inputs[x]])

\* C11: a player with no entry in the input map passed to tick is advanced
\* exactly as if the map held the neutral input for that player: the tick
\* from the current state gives the same state and result with the neutral
\* entry of a player as without it.
C11_MissingInputIsNeutral ==
  match_state.phase.name = "Playing" =>
    \A id \in DOMAIN match_state.players :
      \A inputs \in InputMaps :
        inputs[id] = InputFrame_new
          => tick(match_state, WithoutEntry(inputs, id), DefaultConfig)
               = tick(match_state, inputs, DefaultConfig)

\* ------------------------------------------------------------------------
\* check_player_collision on pairs of players (specification SpecCollision)
\* ------------------------------------------------------------------------

MaxForm == 2

\* Distances between the two players: overlapping for every pair of tiers,
\* and out of reach for every pair of tiers.
ProbeDistances == {60000, 4000000}

\* A player with the given id and x position, and the fields that
\* check_player_collision reads.
ProbePlayer(id, x, form, alive, invulnerable, shield, shrine_shield) ==
  [PlayerState_new(id, Vec(x, 0)) EXCEPT
     !.form = form, !.alive = alive,
     !.invulnerable_ticks = invulnerable,
     !.shield_buff_ticks = shield,
     !.shrine_buffs = IF shrine_shield THEN <<"Shield">> ELSE <<>>,
     !.shrine_buff_ticks = IF shrine_shield THEN <<600>> ELSE <<>>]

ProbePlayers(id, x) ==
  { ProbePlayer(id, x, form, alive, invulnerable, shield, shrine_shield) :
      form \in 0..MaxForm, alive \in BOOLEAN, invulnerable \in {0, 90},
      shield \in {0, 300}, shrine_shield \in BOOLEAN }

InitCollision ==
  /\ match_state = MatchState_new(MatchId, 0)
  /\ result = NoResult
  /\ session = NoSession
  /\ end_info = None
  /\ transcript = NoTranscript
  /\ verification = NoVerification
  /\ reveal = NoReveal
  /\ \E ida \in 1..2, x \in ProbeDistances :
       \E a \in ProbePlayers(ida, 0), b \in ProbePlayers(3 - ida, x) :
         probe = [checked |-> FALSE, a |-> a, b |-> b, ab |-> None, ba |-> None]

\* check_player_collision is called on the pair in both orders.
CheckCollision ==
  /\ ~probe.checked
  /\ probe' = [probe EXCEPT !.checked = TRUE,
                            !.ab = check_player_collision(probe.a, probe.b),
                            !.ba = check_player_collision(probe.b, probe.a)]
  /\ UNCHANGED <<match_state, result, session, end_info, transcript, verification, reveal>>

NextCollision == CheckCollision

SpecCollision == InitCollision /\ [][NextCollision]_vars

\* The player holds a shield buff: from a shield rune or from a Shield shrine.
HoldsShield(p) ==
  \/ p.shield_buff_ticks > 0
  \/ \E i \in DOMAIN p.shrine_buffs : p.shrine_buffs[i] = "Shield" /\ p.shrine_buff_ticks[i] > 0

\* The two players overlap: their centres are no further apart than the sum
\* of their radii.
Overlapping(a, b) ==
  distance_squared(a.position, b.position)
    <= fixed_mul(FORM_RADII[a.form + 1] + FORM_RADII[b.form + 1],
                 FORM_RADII[a.form + 1] + FORM_RADII[b.form + 1])

\* The id of the survivor the rule names for two overlapping players.
Survivor(a, b) ==
  IF a.form > b.form THEN a.id
  ELSE IF b.form > a.form THEN b.id
  ELSE IF HoldsShield(a) /\ ~HoldsShield(b) THEN a.id
  ELSE IF HoldsShield(b) /\ ~HoldsShield(a) THEN b.id
  ELSE Min(a.id, b.id)

\* C9: when two alive, non-invulnerable players overlap, the higher tier
\* survives; at equal tier the one holding a shield buff the other lacks
\* survives; otherwise the player with the smaller id survives; and the
\* outcome is the same whichever of the two players is passed first.
C9_CollisionWinner ==
  ( /\ probe.checked
    /\ probe.a.alive /\ probe.b.alive
    /\ probe.a.invulnerable_ticks = 0 /\ probe.b.invulnerable_ticks = 0
    /\ Overlapping(probe.a, probe.b) )
  => /\ probe.ab = probe.ba
     /\ probe.ab = Some([winner |-> Survivor(probe.a, probe.b),
                         loser |-> probe.a.id + probe.b.id - Survivor(probe.a, probe.b)])

\* Two overlapping players of equal tier, neither shielded, the larger id
\* passed first: the smaller id survives.
C9_Witness ==
  /\ probe.checked
  /\ probe.a.alive /\ probe.b.alive
  /\ probe.a.invulnerable_ticks = 0 /\ probe.b.invulnerable_ticks = 0
  /\ Overlapping(probe.a, probe.b)
  /\ probe.a.form = probe.b.form
  /\ ~HoldsShield(probe.a) /\ ~HoldsShield(probe.b)
  /\ probe.a.id > probe.b.id
  /\ probe.ab = Some([winner |-> probe.b.id, loser |-> probe.a.id])

\* ------------------------------------------------------------------------
\* derive_match_seed on pairs of inputs (specification SpecSeed)
\* ------------------------------------------------------------------------

\* Block hashes, as pairs of 16-byte words.
BlockHashes == {<<0, 0>>, <<0, 1>>}

MatchIds == {1, 2}

\* Lists of participant ids: one id, and two ids in both orders.
IdLists == {<<1>>, <<1, 2>>, <<2, 1>>}

SeedInputs ==
  { [entropy |-> e, match_id |-> m, ids |-> ids] :
      e \in BlockHashes, m \in MatchIds, ids \in IdLists }

\* The set of the elements of a sequence.
Range(s) == { s[i] : i \in DOMAIN s }

InitSeed ==
  /\ match_state = MatchState_new(MatchId, 0)
  /\ result = NoResult
  /\ session = NoSession
  /\ end_info = None
  /\ transcript = NoTranscript
  /\ verification = NoVerification
  /\ reveal = NoReveal
  /\ \E a \in SeedInputs, b \in SeedInputs :
       probe = [checked |-> FALSE, a |-> a, b |-> b, seed_a |-> 0, seed_b |-> 0]

\* derive_match_seed is called on both inputs.
DeriveSeeds ==
  /\ ~probe.checked
  /\ probe' = [probe EXCEPT
       !.checked = TRUE,
       !.seed_a = derive_match_seed(probe.a.entropy, probe.a.match_id, probe.a.ids),
       !.seed_b = derive_match_seed(probe.b.entropy, probe.b.match_id, probe.b.ids)]
  /\ UNCHANGED <<match_state, result, session, end_info, transcript, verification, reveal>>

NextSeed == DeriveSeeds

SpecSeed == InitSeed /\ [][NextSeed]_vars

\* The two inputs have the same entropy, match id and set of ids.
SameSeedInputs ==
  /\ probe.a.entropy = probe.b.entropy
  /\ probe.a.match_id = probe.b.match_id
  /\ Range(probe.a.ids) = Range(probe.b.ids)

\* C4: derive_match_seed returns the same seed for every ordering of the
\* same ids, and a different seed when the entropy, the match id or the set
\* of ids changes.
C4_SeedDependsOnIdSet ==
  probe.checked => (SameSeedInputs <=> probe.seed_a = probe.seed_b)

\* ------------------------------------------------------------------------
\* MatchReveal::verify (specification SpecReveal)
\* ------------------------------------------------------------------------

\* Lists of participant ids without repetition.
RevealIdLists == {<<1, 2>>, <<2, 1>>, <<1, 3>>}

Nonces == {<<0, 1>>, <<1, 0>>}

RevealPreimages ==
  { CommitmentPreimage(m, ids, <<0, 0>>, <<<<1, 1>>, <<2, 2>>>>, n) :
      m \in MatchIds, ids \in RevealIdLists, n \in Nonces }

\* The metadata of the transcripts a producer hands out: the seed is derived
\* from some block hash and some list of ids for the transcript's match id.
RevealTranscripts ==
  { [metadata |-> MatchMetadata(m, e, ids, derive_match_seed(e, m, seed_ids))] :
      m \in MatchIds, ids \in RevealIdLists, e \in BlockHashes, seed_ids \in RevealIdLists }

\* A commitment is published for a preimage and a block range; a reveal is
\* made with the same preimage or with another server nonce.
InitReveal ==
  /\ match_state = MatchState_new(MatchId, 0)
  /\ result = NoResult
  /\ session = NoSession
  /\ end_info = None
  /\ transcript = NoTranscript
  /\ verification = NoVerification
  /\ probe = NoProbe
  /\ \E committed \in RevealPreimages, n \in Nonces, block_max \in 1..2,
        e \in BlockHashes, height \in 0..3, t \in RevealTranscripts :
       reveal = [checked |-> FALSE,
                 commitment |-> from_preimage(committed, 1, block_max),
                 reveal |-> MatchReveal_new([committed EXCEPT !.server_nonce = n],
                                            e, height, t),
                 outcome |-> "None"]

VerifyReveal ==
  /\ ~reveal.checked
  /\ reveal' = [reveal EXCEPT
       !.checked = TRUE,
       !.outcome = MatchReveal_verify(reveal.reveal, reveal.commitment)]
  /\ UNCHANGED <<match_state, result, session, end_info, transcript, verification, probe>>

NextReveal == VerifyReveal

SpecReveal == InitReveal /\ [][NextReveal]_vars

\* The conditions under which a reveal is to be accepted.
RevealIsGenuine(r, commitment) ==
  /\ compute_commitment_hash(r.preimage) = commitment.commitment_hash
  /\ commitment.block_height_min <= r.block_height
  /\ r.block_height <= commitment.block_height_max
  /\ r.transcript.metadata.rng_seed
       = derive_match_seed(r.block_hash, r.preimage.match_id, r.preimage.player_ids)
  /\ r.transcript.metadata.match_id = r.preimage.match_id
  /\ Range(r.transcript.metadata.player_ids) = Range(r.preimage.player_ids)

\* C5: MatchReveal::verify accepts a reveal exactly when the revealed
\* preimage hashes to the published commitment, the block height lies within
\* the committed range (bounds included), the transcript's seed equals the
\* seed derived from the revealed entropy, match id and participants, and
\* the transcript's match id and participant set equal the preimage's.
C5_RevealAcceptedIffGenuine ==
  reveal.checked =>
    ((reveal.outcome = "Ok") <=> RevealIsGenuine(reveal.reveal, reveal.commitment))

\* A reveal at the last block of the range, whose transcript lists the
\* participants in another order than the preimage, is accepted.
C5_Witness ==
  /\ reveal.checked
  /\ reveal.outcome = "Ok"
  /\ reveal.reveal.block_height = reveal.commitment.block_height_max
  /\ reveal.reveal.transcript.metadata.player_ids # reveal.reveal.preimage.player_ids

\* ------------------------------------------------------------------------
\* Transcripts built through MatchTranscript's methods and verified
\* (specification SpecVerify)
\* ------------------------------------------------------------------------

\* A transcript holds at most MaxCheckpoints checkpoints and MaxRecords
\* input records, for matches of at most MaxVerifyPlayers players.
MaxCheckpoints == 2

MaxRecords == 1

MaxVerifyPlayers == 2

\* A hash that no state has.
WrongHash == Sha256("wrong", <<>>)

\* The state of a match of players 1..n right after MatchState::new and
\* add_player for each of them.
RECURSIVE StartState(_, _)
StartState(seed, n) ==
  IF n = 0 THEN MatchState_new(MatchId, seed)
  ELSE Then(StartState(seed, n - 1), LAMBDA s : add_player(s, n))

InitialPlayers(state) ==
  LET Entry(id) == <<InitialPlayerState(id, state.players[id].position,
                                        state.players[id].form)>>
  IN  FlatMap(Entry, SortedSeq(DOMAIN state.players), 1)

\* The deltas of one input record: none, or one frame from tick 1 or 2 on.
DeltaChoices ==
  {<<>>} \cup { <<InputDelta(t, InputFrame(127, 127, FLAG_JUMP + FLAG_ABILITY))>> : t \in 1..2 }

InitVerify ==
  /\ match_state = MatchState_new(MatchId, 0)
  /\ result = NoResult
  /\ session = NoSession
  /\ end_info = None
  /\ \E seed \in Seeds :
       transcript = [built |-> "new",
                     t |-> MatchTranscript_new(MatchMetadata(MatchId, <<0, 0>>, <<>>, seed))]
  /\ verification = NoVerification
  /\ reveal = NoReveal
  /\ probe = NoProbe

\* set_initial_state with the players, positions and generator state of a
\* started match, and the hash of that state or another hash.
SetInitialState(n, good) ==
  /\ transcript.built = "new"
  /\ \E g \in {StartState(transcript.t.metadata.rng_seed, n)} :
       transcript' =
         [built |-> "initial",
          t |-> set_initial_state(
                  [transcript.t EXCEPT !.metadata.player_ids = SortedSeq(DOMAIN g.players)],
                  InitialMatchState(InitialPlayers(g), g.rng,
                                    IF good THEN compute_hash(g) ELSE WrongHash))]
  /\ UNCHANGED <<match_state, result, session, end_info, verification, reveal, probe>>

AddPlayerInputs(id, deltas) ==
  /\ transcript.built = "initial"
  /\ Len(transcript.t.player_inputs) < MaxRecords
  /\ id \in Range(transcript.t.metadata.player_ids)
  /\ transcript' = [transcript EXCEPT
                      !.t = add_player_inputs(@, PlayerInputRecord(id, deltas))]
  /\ UNCHANGED <<match_state, result, session, end_info, verification, reveal, probe>>

\* add_checkpoint for a tick, with the hash the replay has at that tick or
\* another hash.
AddCheckpoint(tick_, good) ==
  /\ transcript.built \in {"initial", "checkpoints"}
  /\ Len(transcript.t.checkpoints) < MaxCheckpoints
  /\ \E s \in {replay(transcript.t, tick_)} :
       transcript' =
         [built |-> "checkpoints",
          t |-> add_checkpoint(transcript.t, tick_,
                               IF good THEN compute_hash(s) ELSE WrongHash, s.rng)]
  /\ UNCHANGED <<match_state, result, session, end_info, verification, reveal, probe>>

\* finalize with the declared length, and the hash the replay ends with or
\* another hash.
FinalizeTranscript(end_tick, good) ==
  /\ transcript.built \in {"initial", "checkpoints"}
  /\ \E s \in {replay(transcript.t, end_tick)} :
       transcript' =
         [built |-> "final",
          t |-> transcript_finalize(transcript.t,
                  MatchResult(end_tick, None, <<>>,
                              IF good THEN compute_hash(s) ELSE WrongHash))]
  /\ UNCHANGED <<match_state, result, session, end_info, verification, reveal, probe>>

VerifyTranscript ==
  /\ transcript.built = "final"
  /\ \E v \in {verify_transcript(transcript.t)} :
       /\ verification' = [checked |-> TRUE, valid |-> v.valid, error |-> v.error]
       /\ transcript' = [transcript EXCEPT !.built = "verified"]
  /\ UNCHANGED <<match_state, result, session, end_info, reveal, probe>>

NextVerify ==
  \/ \E n \in 1..MaxVerifyPlayers, good \in BOOLEAN : SetInitialState(n, good)
  \/ \E id \in 1..MaxVerifyPlayers, deltas \in DeltaChoices : AddPlayerInputs(id, deltas)
  \/ \E tick_ \in 1..MaxTick, good \in BOOLEAN : AddCheckpoint(tick_, good)
  \/ \E end_tick \in 1..MaxTick, good \in BOOLEAN : FinalizeTranscript(end_tick, good)
  \/ VerifyTranscript

SpecVerify == InitVerify /\ [][NextVerify]_vars

\* Replaying the recorded inputs from the recorded initial state for the
\* declared length reproduces the recorded initial hash, the hash of every
\* recorded checkpoint and the declared final hash.
ReplayReproduces(t) ==
  /\ compute_hash(reconstruct_initial_state(t)) = t.initial_state.state_hash
  /\ \A i \in DOMAIN t.checkpoints :
       /\ t.checkpoints[i].tick <= t.result[1].end_tick
       /\ compute_hash(replay(t, t.checkpoints[i].tick)) = t.checkpoints[i].state_hash
  /\ compute_hash(replay(t, t.result[1].end_tick)) = t.result[1].final_state_hash

\* C2: verify_transcript reports a transcript valid if and only if replaying
\* its recorded inputs from its initial state for its declared length
\* reproduces the hash of every checkpoint recorded in the transcript and the
\* declared final hash.
C2_ValidIffReplayReproduces ==
  transcript.built = "verified" => (verification.valid <=> ReplayReproduces(transcript.t))

\* ------------------------------------------------------------------------
\* network/session.rs: a proof-generating MatchSession
\* (specification SpecSession)
\*
\* The session's game_state and transcript fields are the variables
\* match_state and transcript, None until start_match sets them.
\* ------------------------------------------------------------------------

\* Players 1..MaxSessionPlayers join the session.
MaxSessionPlayers == 2

Connected == [connected |-> TRUE, since_tick |-> 0]

Disconnected(since_tick) == [connected |-> FALSE, since_tick |-> since_tick]

\* SessionConfig::default() with proof generation switched on and the given
\* reconnect timeout.
SessionConfig(reconnect_timeout_ticks) ==
  [max_players |-> 4, min_players |-> 2, match_duration_ticks |-> 5400,
   generate_proof |-> TRUE, reconnect_timeout_ticks |-> reconnect_timeout_ticks]

ReconnectTimeouts == {0, 1800}

MatchSession_new(id, config) ==
  [id |-> id, state |-> "Lobby", config |-> config, players |-> <<>>,
   block_hash |-> <<0, 0>>]

SessionPlayer(player_id) ==
  [player_id |-> player_id, ready |-> FALSE, connection_state |-> Connected,
   last_input |-> InputFrame_new, last_input_tick |-> 0]

\* The tick of the game state, or 0 when there is none.
current_tick(game) == IF game = None THEN 0 ELSE game[1].tick

\* A readiness check that does not look at the connection state.
all_players_ready_ignores_connection(s) ==
  /\ Cardinality(DOMAIN s.players) >= s.config.min_players
  /\ \A id \in DOMAIN s.players : s.players[id].ready

all_players_ready(s) ==
  /\ Cardinality(DOMAIN s.players) >= s.config.min_players
  /\ \A id \in DOMAIN s.players :
       s.players[id].ready /\ s.players[id].connection_state.connected

\* The ids check_reconnect_timeouts collects.
timed_out(s, game) ==
  { id \in DOMAIN s.players :
      /\ ~s.players[id].connection_state.connected
      /\ saturating_sub(current_tick(game), s.players[id].connection_state.since_tick)
           > s.config.reconnect_timeout_ticks }

\* check_reconnect_timeouts on the game state: the alive flag of every
\* timed-out player is cleared.
check_reconnect_timeouts(s, state) ==
  [state EXCEPT !.players =
     Tabulated([id \in DOMAIN state.players |->
        IF id \in timed_out(s, Some(state))
          THEN [state.players[id] EXCEPT !.alive = FALSE]
        ELSE state.players[id]])]

\* The game state start_match builds: every session player added in key order.
StartedState(s, rng_seed) ==
  FoldSeq(add_player, MatchState_new(s.id, rng_seed), SortedSeq(DOMAIN s.players), 1)

\* The input map run_tick passes to tick.
last_inputs(s) == Tabulated([id \in DOMAIN s.players |-> s.players[id].last_input])

\* The transcript after run_tick's recording of the tick just run.
RecordTick(t, state, events) ==
  FoldSeq(record_event,
          IF state.tick % 600 = 0
            THEN add_checkpoint(t, state.tick, compute_hash(state), state.rng)
          ELSE t,
          events, 1)

PlayerPlacement(p) ==
  [player_id |-> p.id, place |-> 0, score |-> p.score, eliminations |-> p.kills,
   runes_collected |-> p.runes_collected]

\* Stable insertion by descending score: sort_by(|a, b| b.score.cmp(&a.score)).
RECURSIVE InsertByScore(_, _)
InsertByScore(sorted, x) ==
  IF sorted = <<>> THEN <<x>>
  ELSE IF x.score > Head(sorted).score THEN <<x>> \o sorted
  ELSE <<Head(sorted)>> \o InsertByScore(Tail(sorted), x)

\* finalize's placements: sorted by score, places assigned from 1.
session_placements(state) ==
  LET Entry(id) == <<PlayerPlacement(state.players[id])>>
      Placed(sorted) == [i \in DOMAIN sorted |-> [sorted[i] EXCEPT !.place = i]]
  IN  Placed(FoldSeq(InsertByScore, <<>>, FlatMap(Entry, SortedSeq(DOMAIN state.players), 1), 1))

session_winner(placements) ==
  IF placements # <<>> /\ placements[1].score > 0 THEN Some(placements[1].player_id)
  ELSE None

session_result(state, placements) ==
  MatchResult(state.tick, session_winner(placements),
              [i \in DOMAIN placements |->
                 <<placements[i].player_id, placements[i].place, placements[i].score>>],
              compute_hash(state))

MatchEndInfo(s, state, placements, transcript_) ==
  [match_id |-> s.id, end_tick |-> state.tick, winner_id |-> session_winner(placements),
   placements |-> placements, final_state_hash |-> compute_hash(state),
   transcript |-> transcript_]

InitSession ==
  /\ \E timeout \in ReconnectTimeouts :
       session = MatchSession_new(MatchId, SessionConfig(timeout))
  /\ match_state = None
  /\ transcript = None
  /\ result = NoResult
  /\ end_info = None
  /\ verification = NoVerification
  /\ reveal = NoReveal
  /\ probe = NoProbe

SessionAddPlayer(id) ==
  /\ session.state = "Lobby"
  /\ Cardinality(DOMAIN session.players) < session.config.max_players
  /\ id \notin DOMAIN session.players
  /\ session' = [session EXCEPT !.players = MapInsert(@, id, SessionPlayer(id))]
  /\ UNCHANGED <<match_state, result, end_info, transcript, verification, reveal, probe>>

MarkDisconnected(id) ==
  /\ id \in DOMAIN session.players
  /\ session' = [session EXCEPT
       !.players[id].connection_state = Disconnected(current_tick(match_state)),
       !.players[id].last_input = InputFrame_new]
  /\ UNCHANGED <<match_state, result, end_info, transcript, verification, reveal, probe>>

ReconnectPlayer(id) ==
  /\ id \in DOMAIN session.players
  /\ id \notin timed_out(session, match_state)
  /\ session' = [session EXCEPT !.players[id].connection_state = Connected]
  /\ UNCHANGED <<match_state, result, end_info, transcript, verification, reveal, probe>>

SetPlayerReady(id, ready) ==
  /\ id \in DOMAIN session.players
  /\ session' = [session EXCEPT !.players[id].ready = ready]
  /\ UNCHANGED <<match_state, result, end_info, transcript, verification, reveal, probe>>

SetBlockHash(block_hash) ==
  /\ session' = [session EXCEPT !.block_hash = block_hash]
  /\ UNCHANGED <<match_state, result, end_info, transcript, verification, reveal, probe>>

StartMatch ==
  /\ session.state = "Lobby"
  /\ all_players_ready(session)
  /\ \E rng_seed \in {derive_match_seed(session.block_hash, session.id,
                                        SortedSeq(DOMAIN session.players))} :
       /\ match_state' = Some(StartedState(session, rng_seed))
       /\ transcript' =
            IF session.config.generate_proof
              THEN Some(MatchTranscript_new(
                     MatchMetadata(session.id, session.block_hash,
                                   SortedSeq(DOMAIN session.players), rng_seed)))
            ELSE transcript
  /\ session' = [session EXCEPT !.state = "Countdown"]
  /\ UNCHANGED <<result, end_info, verification, reveal, probe>>

\* A begin_playing that does not look at the session state.
BeginPlayingSession_from_any_state ==
  /\ session.state # "Playing"
  /\ session' = [session EXCEPT !.state = "Playing"]
  /\ match_state' = IF match_state = None THEN match_state
                    ELSE Some([match_state[1] EXCEPT !.phase = Playing])
  /\ UNCHANGED <<result, end_info, transcript, verification, reveal, probe>>

BeginPlayingSession ==
  /\ session.state = "Countdown"
  /\ session' = [session EXCEPT !.state = "Playing"]
  /\ match_state' = IF match_state = None THEN match_state
                    ELSE Some([match_state[1] EXCEPT !.phase = Playing])
  /\ UNCHANGED <<result, end_info, transcript, verification, reveal, probe>>

ProcessInput(id, tick_, input) ==
  /\ session.state = "Playing"
  /\ id \in DOMAIN session.players
  /\ session' = [session EXCEPT !.players[id].last_input = input,
                                !.players[id].last_input_tick = tick_]
  /\ UNCHANGED <<match_state, result, end_info, transcript, verification, reveal, probe>>

RunTick ==
  /\ session.state = "Playing"
  /\ match_state # None
  /\ match_state[1].tick < MaxTick
  /\ \E r \in {tick(check_reconnect_timeouts(session, match_state[1]),
                    last_inputs(session), DefaultConfig)} :
       /\ match_state' = Some(r.state)
       /\ result' = r.result
       /\ transcript' =
            IF session.config.generate_proof /\ transcript # None
              THEN Some(RecordTick(transcript[1], r.state, r.result.events))
            ELSE transcript
       /\ session' = IF r.result.match_ended THEN [session EXCEPT !.state = "Ended"]
                     ELSE session
  /\ UNCHANGED <<end_info, verification, reveal, probe>>

FinalizeSession ==
  /\ session.state = "Ended"
  /\ match_state # None
  /\ \E placements \in {session_placements(match_state[1])} :
       /\ transcript' =
            IF session.config.generate_proof /\ transcript # None
              THEN Some(transcript_finalize(transcript[1],
                                            session_result(match_state[1], placements)))
            ELSE transcript
       /\ end_info' = Some(MatchEndInfo(session, match_state[1], placements,
                             IF session.config.generate_proof THEN transcript' ELSE None))
  /\ session' = [session EXCEPT !.state = "Closed"]
  /\ UNCHANGED <<match_state, result, verification, reveal, probe>>

\* A party verifies the transcript the session handed out.
VerifyHandedOut ==
  /\ end_info # None
  /\ end_info[1].transcript # None
  /\ verification = NoVerification
  /\ \E v \in {verify_transcript(end_info[1].transcript[1])} :
       verification' = [checked |-> TRUE, valid |-> v.valid, error |-> v.error]
  /\ UNCHANGED <<match_state, result, session, end_info, transcript, reveal, probe>>

SessionInputs == { InputFrame_new, InputFrame(127, 127, FLAG_JUMP + FLAG_ABILITY) }

\* Clients stamp their input with the tick of the state they last received.
NextSession ==
  \/ \E id \in 1..MaxSessionPlayers : SessionAddPlayer(id)
  \/ \E id \in 1..MaxSessionPlayers : MarkDisconnected(id)
  \/ \E id \in 1..MaxSessionPlayers : ReconnectPlayer(id)
  \/ \E id \in 1..MaxSessionPlayers, ready \in BOOLEAN : SetPlayerReady(id, ready)
  \/ \E block_hash \in BlockHashes : SetBlockHash(block_hash)
  \/ StartMatch
  \/ BeginPlayingSession
  \/ \E id \in 1..MaxSessionPlayers, input \in SessionInputs :
       ProcessInput(id, current_tick(match_state), input)
  \/ RunTick
  \/ FinalizeSession
  \/ VerifyHandedOut

SpecSession == InitSession /\ [][NextSession]_vars

\* C3: the transcript that a proof-generating session hands out at match end
\* is accepted by verify_transcript.
C3_HandedOutTranscriptVerifies ==
  (verification # NoVerification) => verification.valid

\* The number of players whose alive flag is set.
AliveNow(state) == Cardinality({ id \in DOMAIN state.players : state.players[id].alive })

\* C7: a match in the Playing phase reaches Ended no later than the tick at
\* which the tick counter reaches MATCH_DURATION_TICKS, and already at the
\* end of the first tick after which at most one player is alive: after a
\* tick, a match still Playing is short of the duration and has two players
\* alive.
C7_PlayingMatchEnds ==
  (match_state # None /\ match_state[1].phase.name = "Playing" /\ match_state[1].tick > 0)
    => /\ match_state[1].tick < MATCH_DURATION_TICKS
       /\ AliveNow(match_state[1]) >= 2

\* ------------------------------------------------------------------------
\* A match played to the end of its duration (specification SpecDuration)
\* ------------------------------------------------------------------------

\* The inputs the players of a long match send: none, or full left.
DurationInputs == { InputFrame_new, InputFrame(-127, 0, 0) }

\* Two players are added to a new match, which is set to Playing.
InitDuration ==
  /\ \E seed \in Seeds : match_state = [StartState(seed, 2) EXCEPT !.phase = Playing]
  /\ result = NoResult
  /\ session = NoSession
  /\ end_info = None
  /\ transcript = NoTranscript
  /\ verification = NoVerification
  /\ reveal = NoReveal
  /\ probe = NoProbe

\* One call of tick in which every player sends the same input; the players
\* move during the first MaxTick ticks and idle from then on.
TickAll(input) ==
  /\ match_state.phase.name = "Playing"
  /\ input = InputFrame_new \/ match_state.tick < MaxTick
  /\ \E r \in {tick(match_state, [id \in DOMAIN match_state.players |-> input],
                    DefaultConfig)} :
       /\ match_state' = r.state
       /\ result' = r.result
  /\ UNCHANGED <<session, end_info, transcript, verification, reveal, probe>>

NextDuration == \E input \in DurationInputs : TickAll(input)

SpecDuration == InitDuration /\ [][NextDuration]_vars

\* Player a ranks before player b: by score, then by id as end_match's
\* max_by_key((score, id)) orders them.
RanksBefore(a, b) == a.score > b.score \/ (a.score = b.score /\ a.id > b.id)

\* Every player holds a placement, the placements are the distinct values
\* 1..N, and the players still alive are placed in ranking order.
PlacementsComplete(state) ==
  /\ \A id \in DOMAIN state.players : state.players[id].placement # None
  /\ { state.players[id].placement[1] : id \in DOMAIN state.players }
       = 1..Cardinality(DOMAIN state.players)
  /\ \A a, b \in DOMAIN state.players :
       ( /\ state.players[a].alive /\ state.players[b].alive /\ a # b
         /\ RanksBefore(state.players[a], state.players[b]) )
       => state.players[a].placement[1] < state.players[b].placement[1]

\* C12: when the match moves to Ended every player holds a placement, the
\* placements are the distinct values 1..N for N players, and the players
\* still alive at the end are ranked by score and then by id.
C12_PlacementsAtEnd ==
  match_state.phase.name = "Ended" => PlacementsComplete(match_state)

\* ---------------------------------------------------------------------------
\* Shrine channeling: a match in which the two players have walked to the
\* first shrine.  Each player stands on the line through the shrine centre,
\* either just inside its left rim (one step to the left leaves the shrine),
\* on its centre, or just outside its right rim (one step to the left enters).
\* ---------------------------------------------------------------------------

\* The distance from the shrine centre at which a player of form 0 touches it.
ShrineReach == SHRINE_RADIUS + FORM_RADII[1]

\* Less than the distance a player covers in one tick.
RimMargin == FIXED_ONE \div 20

ShrineX == SHRINE_POSITIONS[1][1]

ShrineY == SHRINE_POSITIONS[1][2]

ShrineSpots ==
  { Vec(ShrineX - ShrineReach + RimMargin, ShrineY),
    Vec(ShrineX, ShrineY),
    Vec(ShrineX + ShrineReach + RimMargin, ShrineY) }

\* The number of ticks of a shrine run: one full channel, the cooldown that
\* follows it, and the start of the next channel.
ShrineRunTicks == CHANNEL_TICKS + 100

StepLeft == InputFrame(-127, 0, 0)

\* The first shrine of the match.
Shrine0(state) == state.shrines[1]

\* The players placed on two spots, at the last tick of the countdown.
PlacedState(pos1, pos2) ==
  [StartState(0, 2) EXCEPT !.players[1].position = pos1,
                           !.players[2].position = pos2,
                           !.phase = Countdown(0)]

InitShrine ==
  /\ \E pos1 \in ShrineSpots : \E pos2 \in ShrineSpots \ {pos1} :
       match_state = tick(PlacedState(pos1, pos2), <<>>, DefaultConfig).state
  /\ probe = [channeler |-> None, run |-> 0]
  /\ result = NoResult
  /\ session = NoSession
  /\ end_info = None
  /\ transcript = NoTranscript
  /\ verification = NoVerification
  /\ reveal = NoReveal

\* The length of the channel of the first shrine after a tick: the number of
\* consecutive ticks, this one included, in which one player channeled it.
\* The tick that completes a channel counts for the player who completed it.
ChannelRun(before, after, run) ==
  LET c == Shrine0(before).channeling_player
      n == Shrine0(after).channeling_player
  IN  IF n # None
        THEN [channeler |-> n, run |-> IF n = c THEN run.run + 1 ELSE 1]
      ELSE IF c # None /\ Shrine0(before).active /\ ~Shrine0(after).active
        THEN [channeler |-> c, run |-> run.run + 1]
      ELSE [channeler |-> None, run |-> 0]

\* One call of tick; the players step during the first MaxTick ticks and
\* stand still from then on.
ShrineTick(inputs) ==
  /\ match_state.phase.name = "Playing"
  /\ match_state.tick < ShrineRunTicks
  /\ \A id \in DOMAIN inputs : inputs[id] = InputFrame_new \/ match_state.tick < MaxTick
  /\ \E r \in {tick(match_state, inputs, DefaultConfig)} :
       /\ match_state' = r.state
       /\ result' = r.result
       /\ probe' = ChannelRun(match_state, r.state, probe)
  /\ UNCHANGED <<session, end_info, transcript, verification, reveal>>

NextShrine ==
  \E inputs \in [DOMAIN match_state.players -> {InputFrame_new, StepLeft}] :
    ShrineTick(inputs)

SpecShrine == InitShrine /\ [][NextShrine]_vars

\* The shrine buff of the first shrine is held by exactly one entry of the
\* player's buff list.
HasOneBuff(state, id) ==
  Cardinality({i \in 1..Len(state.players[id].shrine_buffs) :
                 state.players[id].shrine_buffs[i] = Shrine0(state).shrine_type}) = 1

\* C13: a shrine that one player has channeled without interruption for
\* CHANNEL_TICKS ticks has given that player one buff and is on cooldown, and
\* a shrine whose channel was interrupted earlier has given no buff and has
\* its progress back at zero.
C13_ChannelCompletesAtChannelTicks ==
  /\ probe.run = CHANNEL_TICKS
       => /\ ~Shrine0(match_state).active
          /\ Shrine0(match_state).cooldown > 0
          /\ HasOneBuff(match_state, probe.channeler[1])
  /\ probe.run < CHANNEL_TICKS
       => \A id \in DOMAIN match_state.players :
            match_state.players[id].shrine_buffs = <<>>
  /\ probe.run = 0 /\ Shrine0(match_state).active
       => Shrine0(match_state).channel_progress = 0

\* The state of one shrine is one of: inactive and cooling down, active and
\* idle, active and channeled by one player.
ShrineWellFormed(sh) ==
  /\ Len(sh.channeling_player) <= 1
  /\ ~sh.active => /\ sh.cooldown > 0
                   /\ sh.channeling_player = None
                   /\ sh.channel_progress = 0
  /\ sh.active /\ sh.channel_progress > 0 => sh.channeling_player # None
  /\ sh.channel_progress < FIXED_ONE

\* C14: every shrine has at most one channeling player; an inactive shrine
\* has a positive cooldown, no channeler and zero progress; an active shrine
\* has progress above zero only while a player channels it; and the progress
\* is always below FIXED_ONE.
C14_ShrineStateMachine ==
  \A i \in 1..Len(match_state.shrines) : ShrineWellFormed(match_state.shrines[i])

\* A shrine on cooldown after a channel that a player completed.
C14_Witness ==
  /\ ~Shrine0(match_state).active
  /\ \E id \in DOMAIN match_state.players :
       match_state.players[id].shrine_buffs # <<>>

\* The player is alive and stands within reach of the first shrine.
StandsOnShrine0(state, id) ==
  /\ state.players[id].alive
  /\ is_player_on_shrine(state.players[id].position,
                         Form_radius(state.players[id].form), Shrine0(state))

\* A tick in which player n steps onto the first shrine while player c is
\* channeling it.
ArrivesDuringChannel(before, after, c, n) ==
  /\ Shrine0(before).active
  /\ Shrine0(before).channeling_player = Some(c)
  /\ n # c
  /\ ~StandsOnShrine0(before, n)
  /\ StandsOnShrine0(after, n)

\* C15: when a second player steps onto a shrine that another player is
\* channeling, the channeler of the shrine after that tick is the arriving
\* player.
C15_ArrivingPlayerTakesOver ==
  [][\A c \in DOMAIN match_state.players : \A n \in DOMAIN match_state.players :
       ArrivesDuringChannel(match_state, match_state', c, n)
         => Shrine0(match_state').channeling_player = Some(n)]_vars

\* The shrink progress of a state is within its range, and zero before the
\* shrink start tick.
ShrinkInRange(state) ==
  /\ state.arena_shrink >= 0
  /\ state.arena_shrink <= FIXED_ONE
  /\ state.tick < DefaultConfig.shrink_start_tick => state.arena_shrink = 0

\* C16: the arena shrink progress is zero until the configured shrink start
\* tick, never decreases, never exceeds FIXED_ONE, and the playable arena
\* bound never grows from one state of a match to the next.
C16_ArenaShrinksMonotonically ==
  [][/\ ShrinkInRange(match_state)
     /\ ShrinkInRange(match_state')
     /\ match_state'.arena_shrink >= match_state.arena_shrink
     /\ current_arena_bounds(match_state').hw <= current_arena_bounds(match_state).hw
     /\ current_arena_bounds(match_state').hh <= current_arena_bounds(match_state).hh]_vars

\* A playing match past the shrink start tick whose arena has shrunk.
C16_Witness ==
  /\ match_state.phase.name = "Playing"
  /\ match_state.tick > DefaultConfig.shrink_start_tick
  /\ match_state.arena_shrink > 0
  /\ current_arena_bounds(match_state).hw < ARENA_HALF_WIDTH

\* ---------------------------------------------------------------------------
\* Zone damage: a match one tick before the arena starts to shrink, in which
\* player 1 stands on the right edge of the arena, as a Spark or as a Glyph
\* that has scored its evolution.
\* ---------------------------------------------------------------------------

\* The number of ticks of a zone run: the time the shrinking arena takes to
\* wear down a player who stays on its edge.
ZoneRunTicks == PHASE_SHIFT_TICKS + 5

UseAbility == InputFrame(NO_INPUT, NO_INPUT, FLAG_ABILITY)

\* Player 1 on the right edge of the arena, with the given score.
EdgeState(score) ==
  [StartState(0, 2) EXCEPT
     !.players[1] = add_score(PlayerState_new(1, Vec(ARENA_HALF_WIDTH, 0)), score),
     !.phase = Playing,
     !.tick = DefaultConfig.shrink_start_tick - 1]

InitZone ==
  /\ \E score \in {0, SCORE_TO_EVOLVE[1]} : match_state = EdgeState(score)
  /\ result = NoResult
  /\ session = NoSession
  /\ end_info = None
  /\ transcript = NoTranscript
  /\ verification = NoVerification
  /\ reveal = NoReveal
  /\ probe = NoProbe

\* One call of tick in which each player idles or uses its ability.
ZoneTick(inputs) ==
  /\ match_state.phase.name = "Playing"
  /\ match_state.tick < DefaultConfig.shrink_start_tick + ZoneRunTicks
  /\ \E r \in {tick(match_state, inputs, DefaultConfig)} :
       /\ match_state' = r.state
       /\ result' = r.result
  /\ UNCHANGED <<session, end_info, transcript, verification, reveal, probe>>

NextZone ==
  \E inputs \in [DOMAIN match_state.players -> {InputFrame_new, UseAbility}] :
    ZoneTick(inputs)

SpecZone == InitZone /\ [][NextZone]_vars

\* C17: a player whose invulnerability counter is above zero while a tick
\* looks for eliminations is not eliminated in that tick, neither by a player
\* collision nor by zone damage.
C17_InvulnerableIsNotEliminated ==
  [][\A id \in DOMAIN match_state.players :
       match_state.players[id].alive /\ match_state'.players[id].invulnerable_ticks > 0
         => match_state'.players[id].alive]_vars

\* ---------------------------------------------------------------------------
\* verify_transcript: failures as values, and the checkpoint it stops at.
\* ---------------------------------------------------------------------------

\* The checkpoints of a transcript, within the ticks it declares, whose hash
\* the replay does not have at their tick.
DisagreeingCheckpoints(t) ==
  {i \in DOMAIN t.checkpoints :
     /\ t.checkpoints[i].tick <= t.result[1].end_tick
     /\ compute_hash(replay(t, t.checkpoints[i].tick)) # t.checkpoints[i].state_hash}

\* The smallest tick of a set of checkpoints.
EarliestTick(t, idxs) == MinOf({t.checkpoints[i].tick : i \in idxs})

\* C18: verify_transcript returns every failure as a result with valid = false
\* and an error, and when some recorded checkpoint disagrees with the replay
\* of a transcript whose initial state is right, the error is a checkpoint
\* mismatch that names the tick of the earliest such checkpoint.
C18_StopsAtEarliestMismatch ==
  transcript.built = "verified" =>
    /\ verification.valid <=> verification.error = None
    /\ (/\ compute_hash(reconstruct_initial_state(transcript.t))
             = transcript.t.initial_state.state_hash
        /\ DisagreeingCheckpoints(transcript.t) # {})
         => /\ verification.error # None
            /\ verification.error[1].name = "CheckpointMismatch"
            /\ verification.error[1].tick =
                 EarliestTick(transcript.t, DisagreeingCheckpoints(transcript.t))

\* ---------------------------------------------------------------------------
\* Inputs on the wire: a session to which clients send inputs tagged with any
\* tick, executed or not.
\* ---------------------------------------------------------------------------

\* InputAck: the acknowledgement handle_input sends back to the client.
InputAck(to, tick_, server_tick) ==
  [checked |-> TRUE, to |-> to, tick |-> tick_, server_tick |-> server_tick]

\* handle_input: the input of a connected client goes to process_input of its
\* session, and is acknowledged when process_input accepts it.
HandleInput(id, tick_, input) ==
  /\ session.state = "Playing"
  /\ session' = IF id \in DOMAIN session.players
                  THEN [session EXCEPT !.players[id].last_input = input,
                                       !.players[id].last_input_tick = tick_]
                ELSE session
  /\ probe' = InputAck(id, tick_, current_tick(match_state))
  /\ UNCHANGED <<match_state, result, end_info, transcript, verification, reveal>>

NextInput ==
  \/ \E id \in 1..MaxSessionPlayers : SessionAddPlayer(id)
  \/ \E id \in 1..MaxSessionPlayers, ready \in BOOLEAN : SetPlayerReady(id, ready)
  \/ StartMatch
  \/ BeginPlayingSession
  \/ \E id \in 1..MaxSessionPlayers, tick_ \in 0..MaxTick, input \in SessionInputs :
       HandleInput(id, tick_, input)
  \/ RunTick

SpecInput == InitSession /\ [][NextInput]_vars

\* C19: an input that arrives tagged with a tick the session has already
\* executed leaves the input the session holds for that player, which is the
\* one the later ticks use, as it was.
C19_LateInputIsDropped ==
  [][(/\ probe' # probe
      /\ probe'.checked
      /\ probe'.tick \in 1..probe'.server_tick
      /\ probe'.to \in DOMAIN session.players)
       => session'.players[probe'.to].last_input
            = session.players[probe'.to].last_input]_vars

\* ---------------------------------------------------------------------------
\* proof/merkle.rs: the binary Merkle tree and its inclusion proofs.
\* ---------------------------------------------------------------------------

\* The largest number of leaves of a tree.
MaxLeaves == 4

\* The number of different leaf contents.
MaxContent == 2

LeafContents == 1..MaxContent

empty_hash == Sha256("RUNE_RELIC_MERKLE_EMPTY_V1", <<>>)

hash_leaf(data) == Sha256("RUNE_RELIC_MERKLE_LEAF_V1", <<data>>)

hash_nodes(left, right) == Sha256("RUNE_RELIC_MERKLE_NODE_V1", <<left, right>>)

MerkleTree_new == [leaves |-> <<>>, levels |-> <<>>]

add_leaf(tree, data) ==
  [tree EXCEPT !.leaves = Append(@, hash_leaf(data)), !.levels = <<>>]

RECURSIVE NextPowerOfTwo(_, _)
\* usize::next_power_of_two, from the candidate p on.
NextPowerOfTwo(n, p) == IF p >= n THEN p ELSE NextPowerOfTwo(n, 2 * p)

\* The level above a level: one node for each chunk of two.
NextLevel(level) ==
  Tabulated([i \in 1..((Len(level) + 1) \div 2) |->
               hash_nodes(level[2 * i - 1],
                          IF 2 * i <= Len(level) THEN level[2 * i]
                          ELSE level[2 * i - 1])])

RECURSIVE BuildLevels(_, _)
\* The loop of build: levels are appended until one has a single node.
BuildLevels(levels, current_level) ==
  IF Len(current_level) > 1
    THEN BuildLevels(Append(levels, NextLevel(current_level)), NextLevel(current_level))
  ELSE levels

build(tree) ==
  IF tree.leaves = <<>> THEN [tree EXCEPT !.levels = <<>>]
  ELSE LET target_size == NextPowerOfTwo(Len(tree.leaves), 1)
           Padded(leaves) ==
             leaves \o Tabulated([i \in 1..(target_size - Len(leaves)) |-> empty_hash])
           Built(current_level) == BuildLevels(<<current_level>>, current_level)
       IN  [tree EXCEPT !.levels = Built(Padded(tree.leaves))]

\* The tree as root and generate_proof leave it: built when it was not.
Ensured(tree) == IF tree.levels = <<>> THEN build(tree) ELSE tree

\* root: the hash, for the tree Ensured leaves behind.
root(tree) ==
  IF tree.leaves = <<>> THEN empty_hash
  ELSE LET Top(levels) ==
             IF levels = <<>> \/ levels[Len(levels)] = <<>> THEN empty_hash
             ELSE levels[Len(levels)][1]
       IN  Top(Ensured(tree).levels)

MerkleProof(leaf_index, siblings) == [leaf_index |-> leaf_index, siblings |-> siblings]

RECURSIVE CollectSiblings(_, _, _, _)
\* The walk of generate_proof from level l (1 is the leaves) upwards.
CollectSiblings(levels, l, current_index, siblings) ==
  IF l > Len(levels) - 1 THEN siblings
  ELSE LET sibling_index == IF current_index % 2 = 0 THEN current_index + 1
                            ELSE current_index - 1
       IN  CollectSiblings(levels, l + 1, current_index \div 2,
             IF sibling_index < Len(levels[l])
               THEN Append(siblings, <<levels[l][sibling_index + 1], current_index % 2 = 0>>)
             ELSE siblings)

generate_proof(tree, index) ==
  IF index >= Len(tree.leaves) THEN None
  ELSE Some(MerkleProof(index, CollectSiblings(Ensured(tree).levels, 1, index, <<>>)))

RECURSIVE ClimbProof_ignores_side(_, _, _)
\* A climb that takes every sibling for a right sibling.
ClimbProof_ignores_side(current_hash, siblings, i) ==
  IF i > Len(siblings) THEN current_hash
  ELSE ClimbProof_ignores_side(hash_nodes(current_hash, siblings[i][1]), siblings, i + 1)

RECURSIVE ClimbProof(_, _, _)
\* The loop of verify_proof over the siblings from i on.
ClimbProof(current_hash, siblings, i) ==
  IF i > Len(siblings) THEN current_hash
  ELSE ClimbProof(IF siblings[i][2] THEN hash_nodes(current_hash, siblings[i][1])
                  ELSE hash_nodes(siblings[i][1], current_hash),
                  siblings, i + 1)

verify_proof(root_hash, proof, leaf_data) ==
  ClimbProof(hash_leaf(leaf_data), proof.siblings, 1) = root_hash

\* No proof has been asked for since the last leaf was added.
NoProofCheck == [checked |-> FALSE]

\* The tree with the contents its leaves were made of, and the last proof
\* that was asked for and checked.
InitMerkle ==
  /\ probe = [data |-> <<>>, tree |-> MerkleTree_new]
  /\ verification = NoProofCheck
  /\ match_state = MatchState_new(MatchId, 0)
  /\ result = NoResult
  /\ session = NoSession
  /\ end_info = None
  /\ transcript = NoTranscript
  /\ reveal = NoReveal

MerkleAddLeaf(data) ==
  /\ Len(probe.data) < MaxLeaves
  /\ probe' = [data |-> Append(probe.data, data), tree |-> add_leaf(probe.tree, data)]
  /\ verification' = NoProofCheck
  /\ UNCHANGED <<match_state, result, session, end_info, transcript, reveal>>

\* root is asked of the tree, which builds it.
MerkleRoot ==
  /\ probe.tree.leaves # <<>>
  /\ probe.tree.levels = <<>>
  /\ probe' = [probe EXCEPT !.tree = Ensured(@)]
  /\ UNCHANGED <<match_state, result, session, end_info, transcript, verification, reveal>>

\* A proof is asked for an index and checked against the root with a content.
MerkleProve(index, content) ==
  /\ \E r \in {root(probe.tree)} : \E proof \in {generate_proof(probe.tree, index)} :
       verification' =
         [checked |-> TRUE, index |-> index, content |-> content, proof |-> proof,
          accepted |-> proof # None /\ verify_proof(r, proof[1], content)]
  /\ probe' = [probe EXCEPT !.tree = IF @.leaves = <<>> THEN @ ELSE Ensured(@)]
  /\ UNCHANGED <<match_state, result, session, end_info, transcript, reveal>>

NextMerkle ==
  \/ \E data \in LeafContents : MerkleAddLeaf(data)
  \/ MerkleRoot
  \/ \E index \in 0..MaxLeaves, content \in LeafContents : MerkleProve(index, content)

SpecMerkle == InitMerkle /\ [][NextMerkle]_vars

\* C20: for a tree built from N leaves, the proof generated for a leaf index
\* verifies against the root with the content of that leaf and with no other
\* content, and an index at or beyond N yields no proof.
C20_ProofVerifiesOwnLeafOnly ==
  verification.checked =>
    IF verification.index >= Len(probe.data)
      THEN verification.proof = None
    ELSE /\ verification.proof # None
         /\ verification.accepted
              <=> verification.content = probe.data[verification.index + 1]

\* An accepted proof of the third leaf of a tree of three leaves, which is
\* padded to four.
C20_Witness ==
  /\ verification.checked
  /\ Len(probe.data) = 3
  /\ verification.index = 2
  /\ verification.accepted
  /\ Len(verification.proof[1].siblings) = 2

\* ---------------------------------------------------------------------------
\* proof/public_inputs.rs: the public inputs of a transcript as M31 elements.
\* Here the 16- and 32-byte values of a transcript are sequences of 4 and 8
\* little-endian u32 chunks, each chunk a pair <<high half, low half>>.
\* ---------------------------------------------------------------------------

M31_PRIME == 2147483647

PUBLIC_INPUT_ELEMENT_COUNT == 66

\* The chunks a value is made of: 0, the prime less one, the prime, 2^31 and
\* u32::MAX.
ChunkChoices ==
  { <<0, 0>>, <<32767, 65534>>, <<32767, 65535>>, <<32768, 0>>, <<65535, 65535>> }

\* The value whose n chunks are all c.
Chunks(n, c) == [i \in 1..n |-> c]

\* chunk % M31_PRIME for a u32 chunk given by its halves.
M31Reduce(chunk) ==
  IF chunk[1] < 32768
    THEN (IF chunk[1] * 65536 + chunk[2] = M31_PRIME THEN 0
          ELSE chunk[1] * 65536 + chunk[2])
  ELSE IF chunk = <<65535, 65535>> THEN 1
  ELSE IF chunk = <<65535, 65534>> THEN 0
  ELSE (chunk[1] - 32768) * 65536 + chunk[2] + 1

hash_to_m31(hash) == Tabulated([i \in 1..8 |-> M31Reduce(hash[i])])

uuid_to_m31(uuid) == Tabulated([i \in 1..4 |-> M31Reduce(uuid[i])])

from_leaves(data) == build(FoldSeq(add_leaf, MerkleTree_new, data, 1))

\* The leaf of one player's input record: the id and the deltas.
InputLeaf(record) == <<record.player_id, record.deltas>>

\* The leaf of one checkpoint: tick, state hash and rng state.
CheckpointLeaf(cp) == <<cp.tick, cp.state_hash, cp.rng_state>>

\* The leaves of a list, one for each element.
LeavesOf(Leaf(_), list) == Tabulated([i \in 1..Len(list) |-> Leaf(list[i])])

\* ProofPublicInputs::from_transcript; Digest gives the 32 bytes of a Merkle
\* root.
from_transcript(t, Digest(_)) ==
  [ match_id |-> uuid_to_m31(t.metadata.match_id),
    block_hash |-> hash_to_m31(t.metadata.block_hash),
    player_count |-> Len(t.metadata.player_ids),
    duration_ticks |-> IF t.result = None THEN 0 ELSE t.result[1].end_tick,
    winner_id |-> IF t.result = None \/ t.result[1].winner_id = None
                    THEN Chunks(4, 0)
                  ELSE uuid_to_m31(t.result[1].winner_id[1]),
    placements_root |-> IF t.result = None THEN Chunks(8, 0)
                        ELSE hash_to_m31(Digest(root(from_leaves(t.result[1].placements)))),
    inputs_root |-> hash_to_m31(Digest(root(from_leaves(LeavesOf(InputLeaf, t.player_inputs))))),
    initial_state_hash |-> hash_to_m31(t.initial_state.state_hash),
    final_state_hash |-> IF t.result = None THEN Chunks(8, 0)
                         ELSE hash_to_m31(t.result[1].final_state_hash),
    checkpoints_root |-> hash_to_m31(Digest(root(from_leaves(LeavesOf(CheckpointLeaf, t.checkpoints))))),
    events_root |-> hash_to_m31(Digest(root(from_leaves(t.events)))) ]

to_m31_array(pi) ==
  pi.match_id \o pi.block_hash \o <<pi.player_count>> \o <<pi.duration_ticks>>
    \o pi.winner_id \o pi.placements_root \o pi.inputs_root \o pi.initial_state_hash
    \o pi.final_state_hash \o pi.checkpoints_root \o pi.events_root

\* The end ticks of a result: none, a full match, and the largest below 2^31.
EndTickChoices == {0, MATCH_DURATION_TICKS, M31_PRIME}

InitPublic ==
  /\ \E c \in ChunkChoices :
       transcript =
         [built |-> "new",
          t |-> MatchTranscript_new(
                  MatchMetadata(Chunks(4, c), Chunks(8, c),
                                <<Chunks(4, <<0, 1>>), Chunks(4, <<0, 2>>)>>, 0))]
  /\ verification = NoProofCheck
  /\ match_state = MatchState_new(MatchId, 0)
  /\ result = NoResult
  /\ session = NoSession
  /\ end_info = None
  /\ reveal = NoReveal
  /\ probe = NoProbe

PublicSetInitialState(hash) ==
  /\ transcript.built = "new"
  /\ transcript' =
       [built |-> "initial",
        t |-> set_initial_state(transcript.t,
                InitialMatchState(<<>>, ZeroRngState, Chunks(8, hash)))]
  /\ UNCHANGED <<match_state, result, session, end_info, verification, reveal, probe>>

\* A checkpoint whose state hash is the one of the initial state.
PublicAddCheckpoint(tick_) ==
  /\ transcript.built = "initial"
  /\ Len(transcript.t.checkpoints) < MaxCheckpoints
  /\ transcript' =
       [transcript EXCEPT !.t = add_checkpoint(@, tick_, @.initial_state.state_hash,
                                               ZeroRngState)]
  /\ UNCHANGED <<match_state, result, session, end_info, verification, reveal, probe>>

PublicFinalize(end_tick, winner, hash) ==
  /\ transcript.built = "initial"
  /\ transcript' =
       [built |-> "final",
        t |-> transcript_finalize(transcript.t,
                MatchResult(end_tick, winner,
                            IF winner = None THEN <<>> ELSE <<<<winner[1], 1, 0>>>>,
                            Chunks(8, hash)))]
  /\ UNCHANGED <<match_state, result, session, end_info, verification, reveal, probe>>

\* export_public_inputs and to_m31_array, for a finalized transcript; the
\* bytes of the Merkle roots are any of the chunk values.
ExportPublicInputs(digest) ==
  /\ transcript.built = "final"
  /\ \E DigestByte \in {digest} :
       LET Digest(h) == Chunks(8, DigestByte)
       IN  verification' =
             [checked |-> TRUE, array |-> to_m31_array(from_transcript(transcript.t, Digest))]
  /\ transcript' = [transcript EXCEPT !.built = "exported"]
  /\ UNCHANGED <<match_state, result, session, end_info, reveal, probe>>

NextPublic ==
  \/ \E hash \in ChunkChoices : PublicSetInitialState(hash)
  \/ \E tick_ \in 1..MaxTick : PublicAddCheckpoint(tick_)
  \/ \E end_tick \in EndTickChoices, hash \in ChunkChoices,
        winner \in {None, Some(Chunks(4, <<0, 1>>))} :
       PublicFinalize(end_tick, winner, hash)
  \/ \E digest \in ChunkChoices : ExportPublicInputs(digest)

SpecPublic == InitPublic /\ [][NextPublic]_vars

\* C21: the public-input array of a finalized transcript has exactly 66
\* elements and each of them is a field element, strictly below 2^31 - 1.
C21_PublicInputsAreFieldElements ==
  verification.checked =>
    /\ Len(verification.array) = PUBLIC_INPUT_ELEMENT_COUNT
    /\ \A i \in 1..Len(verification.array) :
         verification.array[i] >= 0 /\ verification.array[i] < M31_PRIME

\* ---------------------------------------------------------------------------
\* Idle players: a match one tick before the arena starts to shrink, in which
\* player 1 stands near the centre or on the right edge of the arena and
\* player 2 idles.
\* ---------------------------------------------------------------------------

\* Player 1 at a position, one tick before the shrink starts.
IdleStart(pos) ==
  [StartState(0, 2) EXCEPT !.players[1].position = pos,
                           !.phase = Playing,
                           !.tick = DefaultConfig.shrink_start_tick - 1]

InitIdle ==
  /\ \E pos \in {Vec(0, 0), Vec(ARENA_HALF_WIDTH \div 2, 0), Vec(ARENA_HALF_WIDTH, 0)} :
       /\ match_state = IdleStart(pos)
       /\ probe = [run |-> 0, start |-> pos]
  /\ result = NoResult
  /\ session = NoSession
  /\ end_info = None
  /\ transcript = NoTranscript
  /\ verification = NoVerification
  /\ reveal = NoReveal

\* One call of tick with the given input for player 1 and the idle input for
\* player 2; the run of idle ticks of player 1 and the position at its start
\* are kept.
IdleTick(input) ==
  /\ match_state.phase.name = "Playing"
  /\ match_state.tick < DefaultConfig.shrink_start_tick + ZoneRunTicks
  /\ \E r \in {tick(match_state, 1 :> input @@ 2 :> InputFrame_new, DefaultConfig)} :
       /\ match_state' = r.state
       /\ result' = r.result
       /\ probe' = IF input = InputFrame_new
                     THEN [probe EXCEPT !.run = @ + 1]
                   ELSE [run |-> 0, start |-> r.state.players[1].position]
  /\ UNCHANGED <<session, end_info, transcript, verification, reveal>>

NextIdle == \E input \in {InputFrame_new, StepLeft} : IdleTick(input)

SpecIdle == InitIdle /\ [][NextIdle]_vars

\* C22: a player whose input was the idle frame (the no-input sentinel on
\* both axes) for 10 consecutive ticks is at the position it had before them.
C22_IdlePlayerStaysInPlace ==
  probe.run = 10 => match_state.players[1].position = probe.start

\* ------------------------------------------------------------------------
\* game/input.rs: PlayerInputBuffer and its replay iterator
\* ------------------------------------------------------------------------

\* record is called for at most MaxRecordedTicks consecutive ticks.
MaxRecordedTicks == 5

PlayerInputBuffer_new ==
  [start_tick |-> 0, end_tick |-> 0, deltas |-> <<>>, last_frame |-> InputFrame_new]

\* PlayerInputBuffer::record: the end tick moves, a delta is stored only when
\* the frame differs from the last one.
record(buffer, tick_, frame) ==
  IF frame # buffer.last_frame
    THEN [buffer EXCEPT !.end_tick = tick_,
                        !.deltas = Append(@, InputDelta(tick_, frame)),
                        !.last_frame = frame]
    ELSE [buffer EXCEPT !.end_tick = tick_]

\* A lookup that takes only the deltas strictly before the tick.
RECURSIVE partition_point_strict(_, _, _)
partition_point_strict(deltas, tick_, i) ==
  IF i > Len(deltas) \/ ~(deltas[i].tick < tick_) THEN i - 1
  ELSE partition_point_strict(deltas, tick_, i + 1)

\* deltas.partition_point(|d| d.tick <= tick): the number of leading deltas
\* at or before the tick (the deltas are in tick order).
RECURSIVE partition_point(_, _, _)
partition_point(deltas, tick_, i) ==
  IF i > Len(deltas) \/ ~(deltas[i].tick <= tick_) THEN i - 1
  ELSE partition_point(deltas, tick_, i + 1)

get_input_at(buffer, tick_) ==
  IF buffer.deltas = <<>> THEN InputFrame_new
  ELSE LET Pick(idx) == IF idx = 0 THEN InputFrame_new ELSE buffer.deltas[idx].frame
       IN  Pick(partition_point(buffer.deltas, tick_, 1))

replay_iter(buffer) ==
  [buffer |-> buffer, current_tick |-> buffer.start_tick, delta_idx |-> 0,
   current_frame |-> InputFrame_new]

\* The inner loop of ReplayIterator::next: take every delta at or before the
\* current tick.
RECURSIVE AdvanceDeltas(_)
AdvanceDeltas(it) ==
  IF it.delta_idx < Len(it.buffer.deltas)
       /\ it.buffer.deltas[it.delta_idx + 1].tick <= it.current_tick
    THEN AdvanceDeltas([it EXCEPT !.current_frame = it.buffer.deltas[it.delta_idx + 1].frame,
                                  !.delta_idx = @ + 1])
    ELSE it

\* ReplayIterator::next: the item, if any, and the iterator after it.
ReplayIterator_next(it) ==
  IF it.current_tick > it.buffer.end_tick THEN [item |-> None, it |-> it]
  ELSE LET Yield(a) == [item |-> Some(<<a.current_tick, a.current_frame>>),
                        it |-> [a EXCEPT !.current_tick = @ + 1]]
       IN  Yield(AdvanceDeltas(it))

\* Every item the iterator yields until it returns None.
RECURSIVE Collect(_)
Collect(it) ==
  LET Rest(r) == IF r.item = None THEN <<>> ELSE r.item \o Collect(r.it)
  IN  Rest(ReplayIterator_next(it))

BufferFrames ==
  { InputFrame_new, InputFrame(-127, 0, 0), InputFrame(127, 127, FLAG_JUMP + FLAG_ABILITY) }

\* probe: the buffer, the tick of the first record call and the frames handed
\* to record, in order.  verification: the outcome of the latest lookup.
InitBuffer ==
  /\ \E first \in 0..2 :
       probe = [buffer |-> PlayerInputBuffer_new, first |-> first, recorded |-> <<>>]
  /\ verification = NoProofCheck
  /\ match_state = MatchState_new(MatchId, 0)
  /\ result = NoResult
  /\ session = NoSession
  /\ end_info = None
  /\ transcript = NoTranscript
  /\ reveal = NoReveal

BufferRecord(frame) ==
  /\ Len(probe.recorded) < MaxRecordedTicks
  /\ probe' = [probe EXCEPT
                 !.buffer = record(@, probe.first + Len(probe.recorded), frame),
                 !.recorded = Append(@, frame)]
  /\ verification' = NoProofCheck
  /\ UNCHANGED <<match_state, result, session, end_info, transcript, reveal>>

BufferLookup(tick_) ==
  /\ probe.recorded # <<>>
  /\ verification' = [checked |-> TRUE, tick |-> tick_,
                      frame |-> get_input_at(probe.buffer, tick_),
                      replayed |-> Collect(replay_iter(probe.buffer))]
  /\ UNCHANGED <<probe, match_state, result, session, end_info, transcript, reveal>>

NextBuffer ==
  \/ \E frame \in BufferFrames : BufferRecord(frame)
  \/ \E tick_ \in 0..(MaxRecordedTicks + 2) : BufferLookup(tick_)

SpecBuffer == InitBuffer /\ [][NextBuffer]_vars

\* The frame handed to record for the tick: idle before the first call, the
\* last frame handed over after the last call.
RecordedAt(tick_) ==
  IF tick_ < probe.first THEN InputFrame_new
  ELSE IF tick_ - probe.first + 1 > Len(probe.recorded)
    THEN probe.recorded[Len(probe.recorded)]
  ELSE probe.recorded[tick_ - probe.first + 1]

\* C24: after frames were recorded for consecutive ticks, get_input_at(t) is
\* the frame recorded for t (idle before the first), and the replay iterator
\* yields, for every tick from the start tick to the end tick, that tick with
\* the frame recorded for it.
C24_BufferReturnsRecordedFrames ==
  verification.checked =>
    /\ verification.frame = RecordedAt(verification.tick)
    /\ Len(verification.replayed) = probe.buffer.end_tick + 1
    /\ \A i \in 1..Len(verification.replayed) :
         verification.replayed[i] = <<i - 1, RecordedAt(i - 1)>>

\* A lookup between two stored deltas, after a run of unchanged frames, and
\* before the first recorded tick.
C24_Witness ==
  /\ verification.checked
  /\ Len(probe.buffer.deltas) >= 2
  /\ Len(probe.buffer.deltas) < Len(probe.recorded)
  /\ probe.first > 0
  /\ verification.tick > probe.buffer.deltas[1].tick
  /\ verification.tick < probe.buffer.deltas[2].tick

\* ------------------------------------------------------------------------
\* network/session.rs: starting a match from the lobby
\* (specification SpecLobby)
\* ------------------------------------------------------------------------

\* MatchSession::start_match on the session, its game state and its
\* transcript: the Result (Ok with the seed, or the error) and the three
\* values after the call.
start_match(s, game, t) ==
  IF s.state # "Lobby"
    THEN [ok |-> FALSE, error |-> "InvalidState", session |-> s, game |-> game,
          transcript |-> t]
  ELSE IF ~all_players_ready(s)
    THEN [ok |-> FALSE, error |-> "PlayersNotReady", session |-> s, game |-> game,
          transcript |-> t]
  ELSE LET Started(rng_seed) ==
             [ok |-> TRUE, error |-> "", session |-> [s EXCEPT !.state = "Countdown"],
              game |-> Some(StartedState(s, rng_seed)),
              transcript |->
                IF s.config.generate_proof
                  THEN Some(MatchTranscript_new(
                         MatchMetadata(s.id, s.block_hash, SortedSeq(DOMAIN s.players),
                                       rng_seed)))
                ELSE t]
       IN  Started(derive_match_seed(s.block_hash, s.id, SortedSeq(DOMAIN s.players)))

\* MatchSession::remove_player: the last player leaving a lobby closes it.
RemovePlayer(id) ==
  /\ id \in DOMAIN session.players
  /\ \E rest \in {Tabulated([p \in DOMAIN session.players \ {id} |-> session.players[p]])} :
       session' = [session EXCEPT
                     !.players = rest,
                     !.state = IF @ = "Lobby" /\ DOMAIN rest = {} THEN "Closed" ELSE @]
  /\ UNCHANGED <<match_state, result, end_info, transcript, verification, reveal, probe>>

NoAttempt == [attempted |-> FALSE]

InitLobby ==
  /\ session = MatchSession_new(MatchId, SessionConfig(1800))
  /\ match_state = None
  /\ transcript = None
  /\ result = NoResult
  /\ end_info = None
  /\ verification = NoVerification
  /\ reveal = NoReveal
  /\ probe = NoAttempt

\* A call of start_match; probe keeps the session, game state and transcript
\* before the call, the Result and the three values after it.
TryStartMatch ==
  /\ \E r \in {start_match(session, match_state, transcript)} :
       /\ session' = r.session
       /\ match_state' = r.game
       /\ transcript' = r.transcript
       /\ probe' = [attempted |-> TRUE, ok |-> r.ok, error |-> r.error,
                    before |-> [session |-> session, game |-> match_state,
                                transcript |-> transcript],
                    after |-> [session |-> r.session, game |-> r.game,
                               transcript |-> r.transcript]]
  /\ UNCHANGED <<result, end_info, verification, reveal>>

NextLobby ==
  \/ \E id \in 1..MaxSessionPlayers : SessionAddPlayer(id)
  \/ \E id \in 1..MaxSessionPlayers : RemovePlayer(id)
  \/ \E id \in 1..MaxSessionPlayers : MarkDisconnected(id)
  \/ \E id \in 1..MaxSessionPlayers : ReconnectPlayer(id)
  \/ \E id \in 1..MaxSessionPlayers, ready \in BOOLEAN : SetPlayerReady(id, ready)
  \/ TryStartMatch
  \/ BeginPlayingSession

SpecLobby == InitLobby /\ [][NextLobby]_vars

\* The session is in the lobby with at least min_players players, every one
\* of them ready and connected.
ReadyLobby(s) ==
  /\ s.state = "Lobby"
  /\ Cardinality(DOMAIN s.players) >= s.config.min_players
  /\ \A id \in DOMAIN s.players :
       s.players[id].ready /\ s.players[id].connection_state = Connected

\* C25: start_match returns Ok exactly from a lobby with at least min_players
\* players who are all ready and connected, and the session is then in
\* Countdown; otherwise it returns InvalidState or PlayersNotReady and the
\* session, its game state and its transcript are as they were.
C25_StartMatchOnlyFromReadyLobby ==
  probe.attempted =>
    /\ probe.ok <=> ReadyLobby(probe.before.session)
    /\ probe.ok => probe.after.session.state = "Countdown"
    /\ ~probe.ok => /\ probe.error \in {"InvalidState", "PlayersNotReady"}
                    /\ probe.after = probe.before

\* start_match refused in a lobby whose players are all ready, one of them
\* disconnected.
C25_Witness ==
  /\ probe.attempted
  /\ probe.error = "PlayersNotReady"
  /\ Cardinality(DOMAIN probe.before.session.players) >= probe.before.session.config.min_players
  /\ \A id \in DOMAIN probe.before.session.players : probe.before.session.players[id].ready
  /\ session = probe.before.session

\* ------------------------------------------------------------------------
\* network/session.rs: the reconnect window (specification SpecSession)
\* ------------------------------------------------------------------------

\* Game ticks since the player was marked disconnected.
elapsed(s, game, id) ==
  saturating_sub(current_tick(game), s.players[id].connection_state.since_tick)

\* MatchSession::can_reconnect
can_reconnect(s, game, id) ==
  /\ id \in DOMAIN s.players
  /\ ~s.players[id].connection_state.connected
  /\ elapsed(s, game, id) <= s.config.reconnect_timeout_ticks

\* C26: a disconnected player can reconnect exactly while no more than
\* reconnect_timeout_ticks game ticks have passed since the disconnect, and a
\* player whose window has passed is refused and, by the time the session has
\* run its last tick, eliminated.
C26_ReconnectWindow ==
  \A id \in DOMAIN session.players :
    ~session.players[id].connection_state.connected =>
      /\ can_reconnect(session, match_state, id)
           <=> elapsed(session, match_state, id) <= session.config.reconnect_timeout_ticks
      /\ ~can_reconnect(session, match_state, id) => id \in timed_out(session, match_state)
      /\ (elapsed(session, match_state, id) > session.config.reconnect_timeout_ticks
            /\ session.state \in {"Ended", "Closed"})
           => ~match_state[1].players[id].alive

\* The step is a tick run by the session.
SessionTickRuns ==
  /\ match_state # None
  /\ match_state' # None
  /\ match_state'[1].tick = match_state[1].tick + 1

\* C27: every tick the session runs while a player is marked disconnected
\* passes the idle frame to tick for that player.
C27_DisconnectedPlayerIsIdle ==
  [][SessionTickRuns =>
       \A id \in DOMAIN session.players :
         ~session.players[id].connection_state.connected
           => last_inputs(session)[id] = InputFrame_new]_vars

\* The shrine list has the four fixed shrines: their ids, positions and types.
HasFourFixedShrines(shrines) ==
  /\ Len(shrines) = 4
  /\ \A i \in 1..4 :
       /\ shrines[i].id = i - 1
       /\ shrines[i].position
            = <<Vec(2293760, 2293760), Vec(-2293760, 2293760),
                Vec(-2293760, -2293760), Vec(2293760, -2293760)>>[i]
       /\ shrines[i].shrine_type = <<"Wisdom", "Power", "Speed", "Shield">>[i]

\* C28: a session's match in the Playing phase has exactly the four fixed
\* shrines.
C28_PlayingMatchHasFourShrines ==
  (match_state # None /\ match_state[1].phase.name = "Playing")
    => HasFourFixedShrines(match_state[1].shrines)

\* ------------------------------------------------------------------------
\* core/fixed.rs: fixed_mul on operands of both signs (specification SpecMul)
\* ------------------------------------------------------------------------

\* Q16.16 operands whose exact product fits in 31 bits: whole numbers,
\* fractions and the smallest steps, of both signs.
MulOperands ==
  { -40000, -FIXED_ONE \div 2, -256, -3, -1, 0, 1, 3, 256, FIXED_ONE \div 2, 40000 }

InitMul ==
  /\ probe = [done |-> FALSE]
  /\ verification = NoVerification
  /\ match_state = MatchState_new(MatchId, 0)
  /\ result = NoResult
  /\ session = NoSession
  /\ end_info = None
  /\ transcript = NoTranscript
  /\ reveal = NoReveal

Multiply(a, b) ==
  /\ probe' = [done |-> TRUE, a |-> a, b |-> b, product |-> fixed_mul(a, b)]
  /\ UNCHANGED <<match_state, result, session, end_info, transcript, verification, reveal>>

NextMul == \E a \in MulOperands, b \in MulOperands : Multiply(a, b)

SpecMul == InitMul /\ [][NextMul]_vars

\* The exact product shifted back by 16 bits, rounded toward zero.
TruncatedProduct(a, b) ==
  IF a * b >= 0 THEN (a * b) \div FIXED_ONE ELSE -((-(a * b)) \div FIXED_ONE)

\* C29: fixed_mul returns the exact product of its operands shifted back by
\* 16 bits and truncated toward zero, whatever the signs of the operands.
C29_FixedMulTruncatesTowardZero ==
  probe.done => probe.product = TruncatedProduct(probe.a, probe.b)

\* ------------------------------------------------------------------------
\* network/session.rs: the life of a session (specification SpecLifecycle)
\* ------------------------------------------------------------------------

\* MatchSession::finalize outside Ended: None, nothing changes.  probe keeps
\* the state the call was made in.
FinalizeRefused ==
  /\ session.state # "Ended"
  /\ probe' = [checked |-> TRUE, state |-> session.state]
  /\ UNCHANGED <<match_state, result, session, end_info, transcript, verification, reveal>>

NextLifecycle ==
  \/ \E id \in 1..MaxSessionPlayers : SessionAddPlayer(id)
  \/ \E id \in 1..MaxSessionPlayers : RemovePlayer(id)
  \/ \E id \in 1..MaxSessionPlayers : MarkDisconnected(id)
  \/ \E id \in 1..MaxSessionPlayers : ReconnectPlayer(id)
  \/ \E id \in 1..MaxSessionPlayers, ready \in BOOLEAN : SetPlayerReady(id, ready)
  \/ StartMatch
  \/ BeginPlayingSession
  \/ RunTick
  \/ FinalizeSession
  \/ FinalizeRefused

SpecLifecycle == InitSession /\ [][NextLifecycle]_vars

\* The position of a SessionState in the order of the enum.
SessionRank(state) ==
  CASE state = "Lobby" -> 0
    [] state = "Countdown" -> 1
    [] state = "Playing" -> 2
    [] state = "Ended" -> 3
    [] state = "Closed" -> 4

\* C30: every change of the session state is a step to the next state in the
\* order Lobby, Countdown, Playing, Ended, Closed, or the step from Lobby to
\* Closed when the last player leaves; the game tick counter moves, by one,
\* only in a step taken in Playing; finalize yields a result only in a step
\* taken in Ended.
C30_SessionLifecycle ==
  [][/\ session'.state # session.state =>
          \/ SessionRank(session'.state) = SessionRank(session.state) + 1
          \/ /\ session.state = "Lobby"
             /\ session'.state = "Closed"
             /\ DOMAIN session.players # {}
             /\ DOMAIN session'.players = {}
     /\ current_tick(match_state') # current_tick(match_state) =>
          /\ session.state = "Playing"
          /\ current_tick(match_state') = current_tick(match_state) + 1
     /\ end_info' # end_info => session.state = "Ended" /\ end_info' # None]_vars

\* A session that went through every state: closed by finalize after a match
\* that ran ticks.
C30_Witness ==
  /\ session.state = "Closed"
  /\ end_info # None
  /\ current_tick(match_state) > 0
  /\ end_info[1].end_tick = current_tick(match_state)

\* ------------------------------------------------------------------------
\* game/shrine.rs: the cooldown after a channel (specification SpecShrine)
\* ------------------------------------------------------------------------

\* C31: a shrine whose channel completed stays inactive for COOLDOWN_TICKS
\* ticks.  No channel completes before the first tick, so a shrine that turns
\* from inactive to active does so after more than COOLDOWN_TICKS ticks of
\* the match.
C31_ShrineCoolsDownForCooldownTicks ==
  [][\A i \in DOMAIN match_state.shrines :
       (~match_state.shrines[i].active /\ match_state'.shrines[i].active)
         => match_state'.tick > COOLDOWN_TICKS]_vars

\* ------------------------------------------------------------------------
\* game/ability.rs: the cooldown between two activations
\* (specification SpecAbility)
\* ------------------------------------------------------------------------

\* The number of ticks of an ability run: one Spark cooldown and a few more.
AbilityRunTicks == ABILITY_COOLDOWNS[1] + 5

\* A match in play: two players far apart, a Chaos rune under player 1, and
\* a generator whose next draw is at the given position of its stream.
ChaosState(pos) ==
  LET Placed(s) ==
        [spawn_rune(s, s.players[1].position, "Chaos") EXCEPT
           !.tick = 100, !.rng = [stream |-> 3, pos |-> pos]]
  IN  Placed(tick([StartState(2, 2) EXCEPT !.phase = Countdown(0)], <<>>, DefaultConfig).state)

\* probe: the latest activation of player 1 (tick and form), the one before
\* it, and whether player 1 collected a Chaos rune since the latest
\* activation and between the two.
InitAbility ==
  /\ \E pos \in {7, 9} : match_state = ChaosState(pos)
  /\ probe = [last |-> None, prev |-> None, chaos_since |-> FALSE, chaos_between |-> FALSE]
  /\ result = NoResult
  /\ session = NoSession
  /\ end_info = None
  /\ transcript = NoTranscript
  /\ verification = NoVerification
  /\ reveal = NoReveal

\* The events of a tick hold an AbilityUsed event of the player.
UsedAbility(events, id) ==
  \E i \in 1..Len(events) : events[i].data[1] = "AbilityUsed" /\ events[i].data[2] = id

\* The events of a tick hold the collection of a Chaos rune by the player.
CollectedChaos(events, id) ==
  \E i \in 1..Len(events) :
    /\ events[i].data[1] = "RuneCollected"
    /\ events[i].data[2] = id
    /\ events[i].data[4] = "Chaos"

\* Abilities activate in apply_inputs, before the rune collisions of the same
\* tick: a rune collected in the tick of an activation comes after it.
Activations(before, events, log) ==
  IF UsedAbility(events, 1)
    THEN [last |-> Some([tick |-> before.tick + 1, form |-> before.players[1].form]),
          prev |-> log.last,
          chaos_since |-> CollectedChaos(events, 1),
          chaos_between |-> log.chaos_since]
  ELSE [log EXCEPT !.chaos_since = @ \/ CollectedChaos(events, 1)]

\* One call of tick: player 1 idles or uses its ability, player 2 idles.
AbilityTick(input) ==
  /\ match_state.phase.name = "Playing"
  /\ match_state.tick < 100 + AbilityRunTicks
  /\ \E r \in {tick(match_state, 1 :> input @@ 2 :> InputFrame_new, DefaultConfig)} :
       /\ match_state' = r.state
       /\ result' = r.result
       /\ probe' = Activations(match_state, r.result.events, probe)
  /\ UNCHANGED <<session, end_info, transcript, verification, reveal>>

NextAbility == \E input \in {InputFrame_new, UseAbility} : AbilityTick(input)

SpecAbility == InitAbility /\ [][NextAbility]_vars

\* The latest activation came no sooner after the one before it than the
\* cooldown of the form that one was used in.
CooldownElapsed ==
  probe.last[1].tick - probe.prev[1].tick >= ABILITY_COOLDOWNS[probe.prev[1].form + 1]

\* C32 as stated: after an activation, no further activation by the player
\* succeeds until the cooldown of the form it was used in has elapsed.
C32_NoActivationDuringCooldown ==
  probe.prev # None => CooldownElapsed

\* C32: after an activation, no further activation by the player succeeds
\* until the cooldown of the form it was used in has elapsed, unless the
\* player collected a Chaos rune in between.
C32_NoActivationDuringCooldownWithoutChaos ==
  (probe.prev # None /\ ~probe.chaos_between) => CooldownElapsed

\* A second activation on the very tick the cooldown has elapsed.
C32_Witness ==
  /\ probe.prev # None
  /\ ~probe.chaos_between
  /\ probe.last[1].tick - probe.prev[1].tick = ABILITY_COOLDOWNS[probe.prev[1].form + 1]

\* ------------------------------------------------------------------------
\* game/ability.rs: Consume (specification SpecConsume)
\* ------------------------------------------------------------------------

has_consume_active(state, player_id) ==
  \E i \in 1..Len(state.active_abilities) :
    /\ state.active_abilities[i].ability_type = "Consume"
    /\ state.active_abilities[i].source_player = player_id

get_consume_radius_multiplier(state, player_id) ==
  IF has_consume_active(state, player_id) THEN CONSUME_RADIUS_MULT ELSE FIXED_ONE

\* Distances of a Spark player from an Ancient one: inside the reach of the
\* Ancient's own radius, inside the reach of the radius extended by Consume
\* only, and outside both.
ConsumeDistances == {150000, 200000, 300000}

\* The number of ticks of a Consume run: the effect and a few ticks more.
ConsumeRunTicks == CONSUME_TICKS + 5

\* A match in play with player 1 an Ancient and player 2 a Spark at the
\* given distance.
AncientState(gap) ==
  LET Placed(s) ==
        [s EXCEPT !.players[1] = [PlayerState_new(1, Vec(0, 0)) EXCEPT
                                    !.form = 4, !.score = SCORE_TO_EVOLVE[4]],
                  !.players[2] = PlayerState_new(2, Vec(gap, 0)),
                  !.runes = <<RuneState_new(0, Vec(0, -2000000), "Wisdom")>>,
                  !.next_rune_id = 1,
                  !.tick = 100]
  IN  Placed(tick([StartState(2, 2) EXCEPT !.phase = Countdown(0)], <<>>, DefaultConfig).state)

InitConsume ==
  /\ \E gap \in ConsumeDistances : match_state = AncientState(gap)
  /\ probe = NoProbe
  /\ result = NoResult
  /\ session = NoSession
  /\ end_info = None
  /\ transcript = NoTranscript
  /\ verification = NoVerification
  /\ reveal = NoReveal

\* One call of tick: the Ancient idles or uses its ability, the Spark idles.
ConsumeTick(input) ==
  /\ match_state.phase.name = "Playing"
  /\ match_state.tick < 100 + ConsumeRunTicks
  /\ \E r \in {tick(match_state, 1 :> input @@ 2 :> InputFrame_new, DefaultConfig)} :
       /\ match_state' = r.state
       /\ result' = r.result
  /\ UNCHANGED <<session, end_info, transcript, verification, reveal, probe>>

NextConsume == \E input \in {InputFrame_new, UseAbility} : ConsumeTick(input)

SpecConsume == InitConsume /\ [][NextConsume]_vars

\* The player is within the elimination radius of the Ancient, extended by
\* the Consume multiplier while the effect is active.
WithinConsumeReach(state, ancient, other) ==
  circles_overlap(state.players[ancient].position,
                  fixed_mul(Form_radius(state.players[ancient].form),
                            get_consume_radius_multiplier(state, ancient)),
                  state.players[other].position,
                  Form_radius(state.players[other].form))

\* C33: after a tick in which an Ancient's Consume was active, no other
\* player of a lower form that can be eliminated is left alive within the
\* extended elimination radius of the Ancient.
C33_ConsumeExtendsEliminationRadius ==
  (match_state.tick > 100 /\ has_consume_active(match_state, 1))
    => \A id \in DOMAIN match_state.players \ {1} :
         (/\ match_state.players[id].alive
          /\ match_state.players[id].invulnerable_ticks = 0
          /\ match_state.players[id].form < match_state.players[1].form)
           => ~WithinConsumeReach(match_state, 1, id)

\* ------------------------------------------------------------------------
\* The alive count of a session's match (specification SpecSession)
\* ------------------------------------------------------------------------

\* C34: in every state of a session's match the stored alive count is the
\* number of players whose alive flag is set.
C34_AliveCountMatchesFlags ==
  match_state # None => match_state[1].alive_count = AliveNow(match_state[1])

\* ------------------------------------------------------------------------
\* PlayerEliminated events of players that meet in a crowd
\* (specification SpecCrowd)
\* ------------------------------------------------------------------------

\* Places of three players: next to each other, so that all three overlap,
\* or away from the others.
CrowdSpots == { Vec(0, 0), Vec(30000, 0), Vec(60000, 0), Vec(200000, 0) }

\* The players on the given spots, at the last tick of the countdown.
CrowdState(pos1, pos2, pos3) ==
  [StartState(2, 3) EXCEPT !.players[1].position = pos1,
                           !.players[2].position = pos2,
                           !.players[3].position = pos3,
                           !.phase = Countdown(0)]

InitCrowd ==
  /\ \E pos1 \in CrowdSpots, pos2 \in CrowdSpots, pos3 \in CrowdSpots :
       match_state = tick(CrowdState(pos1, pos2, pos3), <<>>, DefaultConfig).state
  /\ result = NoResult
  /\ probe = NoProbe
  /\ session = NoSession
  /\ end_info = None
  /\ transcript = NoTranscript
  /\ verification = NoVerification
  /\ reveal = NoReveal

\* One call of tick in which each player idles or steps left.
CrowdTick(inputs) ==
  /\ match_state.tick < MaxTick
  /\ \E r \in {tick(match_state, inputs, DefaultConfig)} :
       /\ match_state' = r.state
       /\ result' = r.result
  /\ UNCHANGED <<session, end_info, transcript, verification, reveal, probe>>

NextCrowd ==
  \E inputs \in [DOMAIN match_state.players -> {InputFrame_new, StepLeft}] :
    CrowdTick(inputs)

SpecCrowd == InitCrowd /\ [][NextCrowd]_vars

\* The positions, in the event list, of the PlayerEliminated events whose
\* victim is the player.
EliminationsOf(events, id) ==
  { i \in 1..Len(events) : events[i].data[1] = "PlayerEliminated" /\ events[i].data[2] = id }

\* C35: a player is the victim of at most one PlayerEliminated event, and the
\* placement the event carries is the placement stored on the player; here
\* for the events one tick returns.
C35_OneEliminationEventPerVictim ==
  \A id \in DOMAIN match_state.players :
    /\ Cardinality(EliminationsOf(result.events, id)) <= 1
    /\ \A i \in EliminationsOf(result.events, id) :
         match_state.players[id].placement = Some(result.events[i].data[4])

\* ------------------------------------------------------------------------
\* The winner and the first place: a match one tick before the arena starts
\* to shrink, in which player 1 stands on the right edge of the arena and
\* player 2 on the left edge or in the middle (specification SpecEdges)
\* ------------------------------------------------------------------------

\* Both players placed, player 1 on the right edge.
EdgesState(pos2) ==
  [EdgeState(0) EXCEPT !.players[2].position = pos2]

InitEdges ==
  /\ \E pos2 \in {Vec(0, 0), Vec(-ARENA_HALF_WIDTH, 0)} : match_state = EdgesState(pos2)
  /\ result = NoResult
  /\ session = NoSession
  /\ end_info = None
  /\ transcript = NoTranscript
  /\ verification = NoVerification
  /\ reveal = NoReveal
  /\ probe = NoProbe

SpecEdges == InitEdges /\ [][NextZone]_vars

\* The players whose stored placement is 1.
FirstPlaced(s) == { id \in DOMAIN s.players : s.players[id].placement = Some(1) }

\* The tick that returned the result ended the match.
EndedTheMatch(r) ==
  r.match_ended /\ \E i \in 1..Len(r.events) : r.events[i].data[1] = "MatchEnded"

\* C36: when a match has ended, the reported winner is the one player whose
\* placement is 1, and no winner is reported only when no player has
\* placement 1; here for the result of the tick that ends the match.
C36_WinnerIsThePlayerPlacedFirst ==
  EndedTheMatch(result) =>
    /\ result.winner # None => FirstPlaced(match_state) = { result.winner[1] }
    /\ result.winner = None => FirstPlaced(match_state) = {}

\* ------------------------------------------------------------------------
\* What finalize reports: a playing session one tick before the arena starts
\* to shrink, in which player 1 stands on the right edge of the arena and
\* player 2 on the left edge or in the middle (specification SpecStandoff)
\* ------------------------------------------------------------------------

\* A session of two connected players whose match is being played.
StandoffSession ==
  [MatchSession_new(MatchId, SessionConfig(1800)) EXCEPT
     !.players = [id \in 1..2 |-> [SessionPlayer(id) EXCEPT !.ready = TRUE]],
     !.state = "Playing"]

InitStandoff ==
  /\ session = StandoffSession
  /\ \E pos2 \in {Vec(0, 0), Vec(-ARENA_HALF_WIDTH, 0)} :
       match_state = Some(EdgesState(pos2))
  /\ transcript = Some(MatchTranscript_new(
                         MatchMetadata(MatchId, StandoffSession.block_hash, <<1, 2>>, 0)))
  /\ result = NoResult
  /\ end_info = None
  /\ verification = NoVerification
  /\ reveal = NoReveal
  /\ probe = NoProbe

\* process_input of an input that idles or uses the ability.
StandoffInput(id, input) ==
  /\ match_state[1].tick < DefaultConfig.shrink_start_tick + ZoneRunTicks
  /\ ProcessInput(id, current_tick(match_state), input)

\* run_tick of the session.
StandoffTick ==
  /\ session.state = "Playing"
  /\ match_state[1].tick < DefaultConfig.shrink_start_tick + ZoneRunTicks
  /\ \E r \in {tick(check_reconnect_timeouts(session, match_state[1]),
                    last_inputs(session), DefaultConfig)} :
       /\ match_state' = Some(r.state)
       /\ result' = r.result
       /\ transcript' = Some(RecordTick(transcript[1], r.state, r.result.events))
       /\ session' = IF r.result.match_ended THEN [session EXCEPT !.state = "Ended"]
                     ELSE session
  /\ UNCHANGED <<end_info, verification, reveal, probe>>

NextStandoff ==
  \/ \E input \in {InputFrame_new, UseAbility} : StandoffInput(2, input)
  \/ StandoffTick
  \/ FinalizeSession

SpecStandoff == InitStandoff /\ [][NextStandoff]_vars

\* The places finalize reports are the placements stored on the players.
ReportsStoredPlacements(info, state) ==
  \A i \in DOMAIN info.placements :
    state.players[info.placements[i].player_id].placement = Some(info.placements[i].place)

\* C37: the winner and the placement order that finalize reports are the
\* winner that tick reported when the match ended and the placements stored
\* in the match state.
C37_FinalizeReportsTheMatchResult ==
  end_info # None =>
    /\ end_info[1].winner_id = result.winner
    /\ ReportsStoredPlacements(end_info[1], match_state[1])

\* ------------------------------------------------------------------------
\* The result a verified transcript declares (specification SpecVerify)
\* ------------------------------------------------------------------------

\* What the k-th tick of the replay returns.
ReplayedResult(t, k) ==
  tick(replay(t, k - 1), get_inputs_at_tick(build_input_lookup(t), k), DefaultConfig).result

\* The ticks of the replay, within the declared length, that end the match.
EndingTicks(t) ==
  { k \in 1..t.result[1].end_tick : EndedTheMatch(ReplayedResult(t, k)) }

\* The winner the replay produces: the one of the tick that ends the match.
ReplayedWinner(t) ==
  IF EndingTicks(t) = {} THEN None
  ELSE ReplayedResult(t, MinOf(EndingTicks(t))).winner

\* Every player the replay has placed is declared with its place.
DeclaresReplayedPlacements(t, s) ==
  \A id \in DOMAIN s.players :
    s.players[id].placement # None =>
      \E i \in DOMAIN t.result[1].placements :
        /\ t.result[1].placements[i][1] = id
        /\ t.result[1].placements[i][2] = s.players[id].placement[1]

\* C38: verify_transcript accepts a transcript only if the winner, the
\* placements and the end tick the transcript declares are the ones the
\* replay produces.
C38_AcceptedTranscriptDeclaresReplayedResult ==
  (transcript.built = "verified" /\ verification.valid) =>
    /\ transcript.t.result[1].winner_id = ReplayedWinner(transcript.t)
    /\ DeclaresReplayedPlacements(transcript.t,
                                  replay(transcript.t, transcript.t.result[1].end_tick))
    /\ transcript.t.result[1].end_tick =
         replay(transcript.t, transcript.t.result[1].end_tick).tick

\* ------------------------------------------------------------------------
\* What the state hash leaves out: two runs of the same match, started from
\* the same state, whose player 1, a Glyph, idles or uses its ability
\* (specification SpecTwin). The second run is held in probe.twin, and
\* probe.same tells whether the last tick gave both runs the same inputs.
\* ------------------------------------------------------------------------

\* The number of ticks of a twin run: the time a phase shift lasts, and some
\* ticks more.
TwinRunTicks == PHASE_SHIFT_TICKS + 5

\* A match of two players that starts playing, player 1 having scored its
\* evolution to Glyph.
GlyphState ==
  LET Evolved(s) ==
        [s EXCEPT !.players[1] = add_score(s.players[1], SCORE_TO_EVOLVE[1]),
                  !.phase = Countdown(0)]
  IN  tick(Evolved(StartState(2, 2)), <<>>, DefaultConfig).state

InitTwin ==
  /\ match_state = GlyphState
  /\ probe = [twin |-> GlyphState, same |-> TRUE]
  /\ result = NoResult
  /\ session = NoSession
  /\ end_info = None
  /\ transcript = NoTranscript
  /\ verification = NoVerification
  /\ reveal = NoReveal

\* One call of tick on each run, player 2 idle in both.
TwinTick(input, twin_input) ==
  /\ match_state.phase.name = "Playing"
  /\ match_state.tick < TwinRunTicks
  /\ \E r \in {tick(match_state, 1 :> input @@ 2 :> InputFrame_new, DefaultConfig)} :
       /\ match_state' = r.state
       /\ result' = r.result
  /\ probe' = [twin |-> tick(probe.twin, 1 :> twin_input @@ 2 :> InputFrame_new,
                             DefaultConfig).state,
               same |-> input = twin_input]
  /\ UNCHANGED <<session, end_info, transcript, verification, reveal>>

NextTwin ==
  \E input \in {InputFrame_new, UseAbility}, twin_input \in {InputFrame_new, UseAbility} :
    TwinTick(input, twin_input)

SpecTwin == InitTwin /\ [][NextTwin]_vars

\* C39: the state hash covers everything that influences later ticks: two
\* match states with equal state hashes, advanced with the same inputs, have
\* equal state hashes after the tick.
C39_EqualHashesStayEqual ==
  [][(compute_hash(match_state) = compute_hash(probe.twin) /\ probe'.same)
       => compute_hash(match_state') = compute_hash(probe'.twin)]_vars

\* ------------------------------------------------------------------------
\* network/server.rs: matchmaking (specification SpecMatchmaking)
\*
\* The variable session holds the GameServer: its clients (one authenticated
\* connection per player, with the session id the server noted on it), the
\* matchmaking queue, and the SessionManager's sessions and player_sessions.
\* Each handler runs as one step; of a match only the session state is kept.
\* ------------------------------------------------------------------------

\* The number of players that connect.
MaxClients == 3

\* The number of sessions the matchmaking loop creates.
MaxSessions == 2

MapRemove(m, k) == Tabulated([x \in (DOMAIN m) \ {k} |-> m[x]])

GameServer_new ==
  [clients |-> <<>>, matchmaking_queue |-> <<>>, sessions |-> <<>>,
   player_sessions |-> <<>>, created |-> 0]

InitMatchmaking ==
  /\ session = GameServer_new
  /\ match_state = None
  /\ transcript = None
  /\ result = NoResult
  /\ end_info = None
  /\ verification = NoVerification
  /\ reveal = NoReveal
  /\ probe = NoProbe

\* handle_auth: a new connection of the player, in no session.
HandleAuth(id) ==
  /\ id \notin DOMAIN session.clients
  /\ session' = [session EXCEPT !.clients = MapInsert(@, id, None)]
  /\ UNCHANGED <<match_state, result, end_info, transcript, verification, reveal, probe>>

\* handle_matchmaking: the player is queued unless it is in the queue.
HandleMatchmaking(id) ==
  /\ id \in DOMAIN session.clients
  /\ id \notin Range(session.matchmaking_queue)
  /\ session' = [session EXCEPT !.matchmaking_queue = Append(@, id)]
  /\ UNCHANGED <<match_state, result, end_info, transcript, verification, reveal, probe>>

\* MatchSession::add_player.
session_add_player(s, id) ==
  IF s.state # "Lobby" THEN s
  ELSE IF Cardinality(DOMAIN s.players) >= s.config.max_players THEN s
  ELSE IF id \in DOMAIN s.players THEN s
  ELSE [s EXCEPT !.players = MapInsert(@, id, SessionPlayer(id))]

\* MatchSession::remove_player.
session_remove_player(s, id) ==
  IF id \notin DOMAIN s.players THEN s
  ELSE [s EXCEPT !.players = MapRemove(@, id),
                 !.state = IF @ = "Lobby" /\ DOMAIN s.players = {id} THEN "Closed" ELSE @]

\* The server after the matchmaking loop created a session for the matched
\* entries: every entry added to the session, registered, and noted on its
\* client.
WithMatch(server, matched, session_id) ==
  LET config == [SessionConfig(1800) EXCEPT !.generate_proof = FALSE]
      Noted(c, id) == IF id \in DOMAIN c THEN [c EXCEPT ![id] = Some(session_id)] ELSE c
      Registered(m, id) == MapInsert(m, id, session_id)
  IN  [server EXCEPT
         !.sessions = MapInsert(@, session_id,
                        FoldSeq(session_add_player, MatchSession_new(session_id, config),
                                matched, 1)),
         !.player_sessions = FoldSeq(Registered, @, matched, 1),
         !.clients = FoldSeq(Noted, @, matched, 1),
         !.created = session_id]

\* One round of run_matchmaking_loop: with two entries or more, the first
\* four at most are taken off the queue and put into a new session; then the
\* entries that waited too long, the oldest of the queue, are dropped.
MatchmakingRound(stale) ==
  /\ session.created < MaxSessions
  /\ \E size \in {IF Len(session.matchmaking_queue) >= 2
                    THEN (IF Len(session.matchmaking_queue) < 4
                            THEN Len(session.matchmaking_queue) ELSE 4)
                  ELSE 0} :
       /\ stale <= Len(session.matchmaking_queue) - size
       /\ session' =
            [(IF size = 0 THEN session
              ELSE WithMatch(session, SubSeq(session.matchmaking_queue, 1, size),
                             session.created + 1))
               EXCEPT !.matchmaking_queue =
                        SubSeq(session.matchmaking_queue, size + stale + 1,
                               Len(session.matchmaking_queue))]
  /\ UNCHANGED <<match_state, result, end_info, transcript, verification, reveal, probe>>

\* handle_ready: the player is marked ready in the session noted on its
\* client, and the match starts when all players of a lobby are ready.
HandleReady(id) ==
  /\ id \in DOMAIN session.clients
  /\ session.clients[id] # None
  /\ session.clients[id][1] \in DOMAIN session.sessions
  /\ \E sid \in {session.clients[id][1]} :
       \E marked \in {IF id \in DOMAIN session.sessions[sid].players
                        THEN [session.sessions[sid] EXCEPT !.players[id].ready = TRUE]
                      ELSE session.sessions[sid]} :
         session' = [session EXCEPT !.sessions[sid] =
                       IF all_players_ready(marked) /\ marked.state = "Lobby"
                         THEN start_match(marked, None, None).session
                       ELSE marked]
  /\ UNCHANGED <<match_state, result, end_info, transcript, verification, reveal, probe>>

\* handle_leave: the player leaves the queue and the session noted on its
\* client.
HandleLeave(id) ==
  /\ id \in DOMAIN session.clients
  /\ \E noted \in {session.clients[id]} :
       session' =
         [session EXCEPT
            !.matchmaking_queue = SelectSeq(@, LAMBDA e : e # id),
            !.sessions = IF noted # None /\ noted[1] \in DOMAIN @
                           THEN [@ EXCEPT ![noted[1]] = session_remove_player(@, id)]
                         ELSE @,
            !.player_sessions = IF noted # None THEN MapRemove(@, id) ELSE @,
            !.clients[id] = None]
  /\ UNCHANGED <<match_state, result, end_info, transcript, verification, reveal, probe>>

\* run_session_game_loop: begin_playing after the countdown, the tick that
\* ends the match, finalize, and remove_session.
GameLoopStep(sid) ==
  /\ sid \in DOMAIN session.sessions
  /\ session.sessions[sid].state \in {"Countdown", "Playing", "Ended", "Closed"}
  /\ session' =
       IF session.sessions[sid].state = "Closed"
         THEN [session EXCEPT !.sessions = MapRemove(@, sid)]
       ELSE [session EXCEPT !.sessions[sid].state =
               IF @ = "Countdown" THEN "Playing"
               ELSE IF @ = "Playing" THEN "Ended"
               ELSE "Closed"]
  /\ UNCHANGED <<match_state, result, end_info, transcript, verification, reveal, probe>>

\* One round of run_cleanup_loop: the idle clients are removed and
\* unregistered, then SessionManager::cleanup removes the closed sessions.
CleanupRound(idle) ==
  /\ idle \subseteq DOMAIN session.clients
  /\ session' =
       [session EXCEPT
          !.clients = Tabulated([id \in (DOMAIN @) \ idle |-> @[id]]),
          !.player_sessions = Tabulated([id \in (DOMAIN @) \ idle |-> @[id]]),
          !.sessions = Tabulated([sid \in {x \in DOMAIN @ : @[x].state # "Closed"} |-> @[sid]])]
  /\ UNCHANGED <<match_state, result, end_info, transcript, verification, reveal, probe>>

NextMatchmaking ==
  \/ \E id \in 1..MaxClients : HandleAuth(id)
  \/ \E id \in 1..MaxClients : HandleMatchmaking(id)
  \/ \E stale \in 0..1 : MatchmakingRound(stale)
  \/ \E id \in 1..MaxClients : HandleReady(id)
  \/ \E id \in 1..MaxClients : HandleLeave(id)
  \/ \E sid \in 1..MaxSessions : GameLoopStep(sid)
  \/ \E idle \in {{}} \cup {{id} : id \in 1..MaxClients} : CleanupRound(idle)

SpecMatchmaking == InitMatchmaking /\ [][NextMatchmaking]_vars

\* The sessions that are not closed and have the player as a member.
OpenSessionsOf(server, id) ==
  { sid \in DOMAIN server.sessions :
      /\ server.sessions[sid].state # "Closed"
      /\ id \in DOMAIN server.sessions[sid].players }

\* C40: under any interleaving of matchmaking requests, matchmaking rounds,
\* ready messages, leaves and session clean-up, a player is a member of at
\* most one session that has not been closed.
C40_PlayerInAtMostOneOpenSession ==
  \A id \in 1..MaxClients : Cardinality(OpenSessionsOf(session, id)) <= 1

====
